---------------------------- MODULE Spec2Model ----------------------------
(***************************************************************************)
(* The Retry Engine of the watchtower client                               *)
(* (watchtower-plugin/src/retrier.rs): the RetryManager supervisor loop,   *)
(* the per-tower Retrier and the campaign task that Retrier::start spawns. *)
(*                                                                         *)
(* Scheduling.  The manager and every campaign are tokio tasks; all shared *)
(* state sits behind std::sync::Mutex (the WTClient, each Retrier's status *)
(* and each Retrier's pending_appointments).  Tasks run on the runtime's   *)
(* worker threads, so they interleave between any two lock acquisitions.   *)
(* One step of the model is one critical section (one lock().unwrap()      *)
(* statement) together with the thread-local computation that follows it.  *)
(* Consecutive reads are merged into one step only where no other task can *)
(* write the value in between; the comment of the step says why.           *)
(***************************************************************************)
EXTENDS Naturals, Integers, Sequences, FiniteSets, TLC

\* ------------------------------------------------------------------ bounds
NumTowers == 1
NumLocators == 1
\* Retrier objects alive at once (the manager's one per tower, plus dropped
\* ones a task still holds through its Arc).
MaxRetriers == 2
\* Campaign tasks alive at once.
MaxTasks == 2
\* Messages the producers send over a whole behaviour.
MaxSends == 2
\* Task slots of the specification with fairness.
MaxFairTasks == 1
\* run() attempts after which the backoff driver has exceeded max_elapsed_time.
MaxAttempts == 2
\* The count of successful add_appointment calls per locator saturates here.
RpcCap == 2

\* Appointments handed to a Retrier that is run on its own.
NumRunLocators == 2

\* auto_retry_delay, in seconds.
AutoRetryDelay == 1

Towers == 1..NumTowers
Locators == 1..NumLocators
\* The locators of a Retrier built with Retrier::new and run on its own.
RunLocators == 1..NumRunLocators
AllLocators == Locators \cup RunLocators
Retriers == 1..MaxRetriers
Tasks == 1..MaxTasks

\* TowerStatus (crate::TowerStatus) and the absence of the tower from
\* WTClient.towers.
Reachable == "Reachable"
TemporaryUnreachable == "TemporaryUnreachable"
Unreachable == "Unreachable"
SubscriptionError == "SubscriptionError"
Misbehaving == "Misbehaving"
Absent == "Absent"
TowerStatus == {Reachable, TemporaryUnreachable, Unreachable, SubscriptionError, Misbehaving}

\* RetrierStatus.  Idle(Instant) is the tag here and the whole seconds
\* elapsed since the Instant in the Retrier's idle field.
Stopped == "Stopped"
Running == "Running"
Failed == "Failed"
Idle == "Idle"
RetrierStatus == {Stopped, Running, Failed, Idle}
NoEntry == "NoEntry"

\* RetryError
ErrSubscription == "Subscription"
ErrUnreachable == "Unreachable"
ErrMisbehaving == "Misbehaving"
ErrAbandoned == "Abandoned"
NoErr == "NoErr"

VARIABLES
    towers,      \* WTClient.towers: tower -> its status, or Absent
    wtRetriers,  \* WTClient.retriers: tower -> the mirrored RetrierStatus, or NoEntry
    db,          \* the store: pending, invalid and receipt rows per tower
    chan,        \* unreachable_towers: the queue of (tower_id, RevocationData)
    sent,        \* how many messages the producers have sent
    retriers,    \* RetryManager.retriers: tower -> Retrier object, or 0 for no entry
    robj,        \* the Retrier objects: tower_id, status, pending_appointments
    mgr,         \* the manager task: position in manage_retry and its locals
    tasks,       \* the campaign tasks: position in start's closure / run and locals
    rpcOk,       \* history: successful add_appointment calls per (tower, locator)
    owner,       \* lock scopes: mutex -> the processes holding its guard
    at           \* lock scopes: process -> the statement it executes

vars == <<towers, wtRetriers, db, chan, sent, retriers, robj, mgr, tasks, rpcOk,
          owner, at>>

\* ------------------------------------------------------------ RevocationData
Fresh(l) == [kind |-> "Fresh", loc |-> l, locs |-> {}]
Stale(s) == [kind |-> "Stale", loc |-> 0, locs |-> s]
None == [kind |-> "None", loc |-> 0, locs |-> {}]

is_none(d) == d.kind = "None"

\* impl From<RevocationData> for HashSet<Locator>
ToLocatorSet(d) ==
    CASE d.kind = "Fresh" -> {d.loc}
      [] d.kind = "Stale" -> d.locs
      [] OTHER -> {}

\* ------------------------------------------------------------ RetryError
is_permanent(e) ==
    \/ e.kind = ErrSubscription /\ e.permanent
    \/ e.kind \in {ErrMisbehaving, ErrAbandoned}

Err(kind, permanent) == [kind |-> kind, permanent |-> permanent]

\* ------------------------------------------------------------ objects
FreeRetrier == [tower |-> 0, status |-> Stopped, pending |-> {}, idle |-> 0]
FreeTask == [pc |-> "free", ret |-> 0, att |-> 0, locs |-> {}, cur |-> 0,
             err |-> Err(NoErr, FALSE)]

\* A Retrier object lives while the manager's map or a task's Arc holds it.
InUse(r, map, tk) ==
    \/ \E t \in Towers : map[t] = r
    \/ \E k \in Tasks : tk[k].pc \notin {"free", "panicked"} /\ tk[k].ret = r

Drop(ro, map, tk) ==
    [r \in Retriers |-> IF InUse(r, map, tk) THEN ro[r] ELSE FreeRetrier]

\* The manager at a position of manage_retry where it holds no local.  held
\* is the Retrier whose pending_appointments lock the manager held when it
\* panicked, 0 otherwise.
MgrAt(pc) ==
    [pc |-> pc, tower |-> 0, data |-> None, todo |-> {}, back |-> "recv", held |-> 0]

\* A task that panics: tokio drops its future, and with it the Arc.
Panic(tk, k) == [tk EXCEPT ![k] = [FreeTask EXCEPT !.pc = "panicked"]]

\* RetryManager.retriers once the manager task has panicked and dropped it.
NoMap == [t \in Towers |-> 0]

FreeRetrierSlots == {r \in Retriers : ~InUse(r, retriers, tasks)}
FreeTaskSlots == {k \in Tasks : tasks[k].pc = "free"}
Lowest(s) == CHOOSE x \in s : \A y \in s : x <= y

\* Every panic of the engine happens under the WTClient lock (the unwrap of
\* load_appointment, of get_tower_status, of a poisoned lock()), so the
\* WTClient mutex is poisoned once a task has panicked: every later
\* wt_client.lock().unwrap() panics.
Poisoned == mgr.pc = "panicked" \/ \E k \in Tasks : tasks[k].pc = "panicked"

\* The pending_appointments mutex of a Retrier is poisoned when the manager
\* panicked while it held the lock.
PendingPoisoned(r) == r # 0 /\ mgr.held = r

\* ------------------------------------------------------------ the store
\* Store.load_appointment_locators(tower_id, Pending)
load_appointment_locators(t) == db.pending[t]

\* The appointment body is kept while a pending or an invalid row of any
\* tower refers to it (removing the last pending row cascades to the body).
HasAppointment(l) == \E t \in Towers : l \in db.pending[t] \cup db.invalid[t]

\* WTClient.set_tower_status: writes the status of a registered tower and
\* does nothing for a tower that is not in the registry.
set_tower_status(tw, t, s) ==
    IF tw[t] = Absent THEN tw ELSE [tw EXCEPT ![t] = s]

\* WTClient.flag_misbehaving_tower
flag_misbehaving_tower(tw, t) ==
    IF tw[t] = Absent THEN tw ELSE [tw EXCEPT ![t] = Misbehaving]

\* ------------------------------------------------------------ lock scopes
\* The three kinds of mutex of the file: Arc<Mutex<WTClient>> and, per Retrier,
\* status and pending_appointments.  The processes that take them are the
\* manager task and the campaign tasks.
LockNames == {"wt_client", "status", "pending"}
ManagerProc == 0
LockProcs == {ManagerProc} \cup Tasks

\* A process executes statement stmt, has taken the first got of its locks,
\* is suspended in its await or not, and returns to ret from set_status.
Pos(stmt) == [stmt |-> stmt, got |-> 0, susp |-> FALSE, ret |-> "none"]

TypeOK ==
    /\ towers \in [Towers -> TowerStatus \cup {Absent}]
    /\ wtRetriers \in [Towers -> RetrierStatus \cup {NoEntry}]
    /\ db.pending \in [Towers -> SUBSET AllLocators]
    /\ db.invalid \in [Towers -> SUBSET AllLocators]
    /\ db.receipts \in [Towers -> SUBSET AllLocators]
    /\ sent \in 0..MaxSends
    /\ Len(chan) <= MaxSends + 1
    /\ retriers \in [Towers -> Retriers \cup {0}]
    /\ \A r \in Retriers : robj[r].status \in RetrierStatus
    /\ \A r \in Retriers : robj[r].pending \subseteq AllLocators
    /\ owner \in [LockNames -> SUBSET LockProcs]
    /\ \A p \in LockProcs : at[p].got \in 0..2

\* ------------------------------------------------------------ Init
\* The state after RetryManager::new: no Retrier, an empty queue.  A tower
\* is registered, Reachable or already flagged SubscriptionError.
Init ==
    /\ towers \in [Towers -> {Reachable, SubscriptionError}]
    /\ wtRetriers = [t \in Towers |-> NoEntry]
    /\ db = [pending |-> [t \in Towers |-> {}],
             invalid |-> [t \in Towers |-> {}],
             receipts |-> [t \in Towers |-> {}]]
    /\ chan = <<>>
    /\ sent = 0
    /\ retriers = [t \in Towers |-> 0]
    /\ robj = [r \in Retriers |-> FreeRetrier]
    /\ mgr = MgrAt("recv")
    /\ tasks = [k \in Tasks |-> FreeTask]
    /\ rpcOk = [t \in Towers |-> [l \in AllLocators |-> 0]]
    /\ owner = [l \in LockNames |-> {}]
    /\ at = [p \in LockProcs |->
                IF p = ManagerProc THEN Pos("try_recv") ELSE Pos("unspawned")]

\* ------------------------------------------------------------ producers
\* Every producer works under the WTClient lock.
\* on_commitment_revocation: the appointment is stored as pending, then
\* (tower_id, Fresh(locator)) is sent.
SendFresh(t, l) ==
    /\ sent < MaxSends
    /\ ~Poisoned
    /\ towers[t] # Absent
    /\ db' = [db EXCEPT !.pending[t] = @ \cup {l}]
    /\ chan' = Append(chan, [tower |-> t, data |-> Fresh(l)])
    /\ sent' = sent + 1
    /\ UNCHANGED <<owner, at, towers, wtRetriers, retriers, robj, mgr, tasks, rpcOk>>

\* Start-up recovery and manual retry: the locators the store holds as
\* pending for the tower are sent as Stale.
SendStale(t) ==
    /\ sent < MaxSends
    /\ ~Poisoned
    /\ towers[t] # Absent
    /\ chan' = Append(chan, [tower |-> t, data |-> Stale(load_appointment_locators(t))])
    /\ sent' = sent + 1
    /\ UNCHANGED <<owner, at, towers, wtRetriers, db, retriers, robj, mgr, tasks, rpcOk>>

\* Manual retry of an idle tower: a wake-up without payload.  The command
\* does not hold the WTClient lock until the manager handles the message, so
\* the tower may be gone by then.
SendNone(t) ==
    /\ sent < MaxSends
    /\ ~Poisoned
    /\ chan' = Append(chan, [tower |-> t, data |-> None])
    /\ sent' = sent + 1
    /\ UNCHANGED <<owner, at, towers, wtRetriers, db, retriers, robj, mgr, tasks, rpcOk>>

\* WTClient.remove_tower (abandoning a tower): the tower leaves the registry
\* and its rows leave the store.
AbandonTower(t) ==
    /\ towers[t] # Absent
    /\ ~Poisoned
    /\ towers' = [towers EXCEPT ![t] = Absent]
    /\ db' = [pending |-> [db.pending EXCEPT ![t] = {}],
              invalid |-> [db.invalid EXCEPT ![t] = {}],
              receipts |-> [db.receipts EXCEPT ![t] = {}]]
    /\ UNCHANGED <<owner, at, wtRetriers, chan, sent, retriers, robj, mgr, tasks, rpcOk>>


\* ------------------------------------------------------------ manager
Keys(map) == {t \in Towers : map[t] # 0}

\* The start pass over self.retriers.values(), then the one-second sleep.
StartPass(todo) ==
    IF todo = {} THEN MgrAt("sleep") ELSE [MgrAt("st") EXCEPT !.todo = todo]

\* self.retriers.retain(..) over the entries not yet visited, then the start
\* pass over the entries retain kept.
RetainPass(todo, map) ==
    IF todo = {} THEN StartPass(Keys(map)) ELSE [MgrAt("rt") EXCEPT !.todo = todo]

\* Where the manager goes on after waking an idle Retrier.
Back(m) == IF m.back = "st" THEN StartPass(m.todo) ELSE MgrAt("recv")

\* try_recv() returns Ok((tower_id, data)).
MgrRecvMsg ==
    /\ mgr.pc = "recv"
    /\ chan # <<>>
    /\ mgr' = [MgrAt("m_tower") EXCEPT !.tower = Head(chan).tower, !.data = Head(chan).data]
    /\ chan' = Tail(chan)
    /\ UNCHANGED <<owner, at, towers, wtRetriers, db, sent, retriers, robj, tasks, rpcOk>>

\* try_recv() returns Err(TryRecvError::Empty): the reap/start pass begins.
MgrRecvEmpty ==
    /\ mgr.pc = "recv"
    /\ chan = <<>>
    /\ mgr' = RetainPass(Keys(retriers), retriers)
    /\ UNCHANGED <<owner, at, towers, wtRetriers, db, chan, sent, retriers, robj, tasks, rpcOk>>

\* wt_client.towers.contains_key(&tower_id), then self.retriers.get(&tower_id);
\* with no Retrier yet, add_pending_appointments creates one (Retrier::new).
MgrCheckTower ==
    /\ mgr.pc = "m_tower"
    /\ ~Poisoned
    /\ LET t == mgr.tower IN
       IF towers[t] = Absent
       THEN /\ mgr' = MgrAt("recv")
            /\ UNCHANGED <<retriers, robj>>
       ELSE IF retriers[t] # 0
       THEN /\ mgr' = [mgr EXCEPT !.pc = "m_isidle"]
            /\ UNCHANGED <<retriers, robj>>
       ELSE /\ FreeRetrierSlots # {}
            /\ LET r == Lowest(FreeRetrierSlots) IN
               /\ retriers' = [retriers EXCEPT ![t] = r]
               /\ robj' = [robj EXCEPT ![r] = [tower |-> t, status |-> Stopped,
                                              pending |-> ToLocatorSet(mgr.data), idle |-> 0]]
            /\ mgr' = MgrAt("recv")
    /\ UNCHANGED <<owner, at, towers, wtRetriers, db, chan, sent, tasks, rpcOk>>

\* A manager that treats data for an idle Retrier like data for any other.
MgrIsIdle_AddsToIdle ==
    /\ mgr.pc = "m_isidle"
    /\ LET r == retriers[mgr.tower] IN
       mgr' = IF robj[r].status = Idle /\ is_none(mgr.data)
              THEN [mgr EXCEPT !.pc = "wake_w", !.back = "recv"]
              ELSE [mgr EXCEPT !.pc = "m_add"]
    /\ UNCHANGED <<owner, at, towers, wtRetriers, db, chan, sent, retriers, robj, tasks, rpcOk>>

\* retrier.is_idle(), and data.is_none() for an idle Retrier.
MgrIsIdle ==
    /\ mgr.pc = "m_isidle"
    /\ LET r == retriers[mgr.tower] IN
       mgr' = IF robj[r].status = Idle
              THEN IF ~is_none(mgr.data) THEN MgrAt("recv")
                   ELSE [mgr EXCEPT !.pc = "wake_w", !.back = "recv"]
              ELSE [mgr EXCEPT !.pc = "m_add"]
    /\ UNCHANGED <<owner, at, towers, wtRetriers, db, chan, sent, retriers, robj, tasks, rpcOk>>

\* add_pending_appointments for an existing entry: pending_appointments.insert
\* of every locator, under the pending lock.
MgrAddPending ==
    /\ mgr.pc = "m_add"
    /\ LET r == retriers[mgr.tower] IN
       robj' = [robj EXCEPT ![r].pending = @ \cup ToLocatorSet(mgr.data)]
    /\ mgr' = MgrAt("recv")
    /\ UNCHANGED <<owner, at, towers, wtRetriers, db, chan, sent, retriers, tasks, rpcOk>>

\* retrier.set_status(RetrierStatus::Stopped) of a wake-up: the status write.
MgrWakeStatus ==
    /\ mgr.pc = "wake_w"
    /\ LET r == retriers[mgr.tower] IN
       robj' = [robj EXCEPT ![r].status = Stopped, ![r].idle = 0]
    /\ mgr' = [mgr EXCEPT !.pc = "wake_m"]
    /\ UNCHANGED <<owner, at, towers, wtRetriers, db, chan, sent, retriers, tasks, rpcOk>>

\* ... and its mirror: is_running(), is_idle(), is_stopped() read Stopped (the
\* manager itself starts Retriers, and every task of the Retrier has written
\* its outcome), so wt_client.retriers.remove(tower_id).
MgrWakeMirror ==
    /\ mgr.pc = "wake_m"
    /\ ~Poisoned
    /\ wtRetriers' = [wtRetriers EXCEPT ![mgr.tower] = NoEntry]
    /\ mgr' = [mgr EXCEPT !.pc = "wake_p"]
    /\ UNCHANGED <<owner, at, towers, db, chan, sent, retriers, robj, tasks, rpcOk>>

\* pending_appointments.extend(dbm.load_appointment_locators(tower_id, Pending)):
\* the WTClient lock is taken while the pending lock is held.
MgrWakeLoad ==
    /\ mgr.pc = "wake_p"
    /\ ~Poisoned
    /\ LET r == retriers[mgr.tower] IN
       robj' = [robj EXCEPT ![r].pending = @ \cup load_appointment_locators(mgr.tower)]
    /\ mgr' = Back(mgr)
    /\ UNCHANGED <<owner, at, towers, wtRetriers, db, chan, sent, retriers, tasks, rpcOk>>

\* retain, first read of an entry: retrier.remove_if_failed() reads failed().
MgrRetainFailed ==
    /\ mgr.pc = "rt"
    /\ \E t \in mgr.todo :
         mgr' = [mgr EXCEPT !.tower = t, !.todo = @ \ {t},
                            !.pc = IF robj[retriers[t]].status = Failed
                                   THEN "rt_rm" ELSE "rt_b"]
    /\ UNCHANGED <<owner, at, towers, wtRetriers, db, chan, sent, retriers, robj, tasks, rpcOk>>

\* A remove_if_failed that forgets wt_client.retriers.
MgrRetainRemove_KeepsMirror ==
    /\ mgr.pc = "rt_rm"
    /\ ~Poisoned
    /\ retriers' = [retriers EXCEPT ![mgr.tower] = 0]
    /\ robj' = Drop(robj, retriers', tasks)
    /\ mgr' = RetainPass(mgr.todo, retriers')
    /\ UNCHANGED <<owner, at, towers, wtRetriers, db, chan, sent, tasks, rpcOk>>

\* remove_if_failed of a Failed Retrier: wt_client.retriers.remove(tower_id).
\* Failed is final, so should_start(), is_running() and is_idle() are false
\* and retain drops the entry.
MgrRetainRemove ==
    /\ mgr.pc = "rt_rm"
    /\ ~Poisoned
    /\ wtRetriers' = [wtRetriers EXCEPT ![mgr.tower] = NoEntry]
    /\ retriers' = [retriers EXCEPT ![mgr.tower] = 0]
    /\ robj' = Drop(robj, retriers', tasks)
    /\ mgr' = RetainPass(mgr.todo, retriers')
    /\ UNCHANGED <<owner, at, towers, db, chan, sent, tasks, rpcOk>>

\* A retain that forgets is_idle().
Keep_NoIdle(o) ==
    \/ o.status = Stopped /\ o.pending # {}
    \/ o.status = Running

\* The value of  should_start() || is_running() || is_idle()  once the status
\* read is one only the manager can change (Stopped, Idle) or final (Failed).
Keep(o) ==
    \/ o.status = Stopped /\ o.pending # {}
    \/ o.status = Running
    \/ o.status = Idle

\* retain, second read: should_start() reads is_stopped() and, when Stopped,
\* has_pending_appointments().  Only a Running status can still change before
\* is_running() reads it.
MgrRetainShouldStart ==
    /\ mgr.pc = "rt_b"
    /\ LET t == mgr.tower
           o == robj[retriers[t]] IN
       IF o.status = Running
       THEN /\ mgr' = [mgr EXCEPT !.pc = "rt_c"]
            /\ UNCHANGED <<retriers, robj>>
       ELSE /\ retriers' = IF Keep(o) THEN retriers ELSE [retriers EXCEPT ![t] = 0]
            /\ robj' = Drop(robj, retriers', tasks)
            /\ mgr' = RetainPass(mgr.todo, retriers')
    /\ UNCHANGED <<owner, at, towers, wtRetriers, db, chan, sent, tasks, rpcOk>>

\* retain, third read: is_running() || is_idle().  A status that is not
\* Running any more cannot change between the two reads.
MgrRetainRunning ==
    /\ mgr.pc = "rt_c"
    /\ LET t == mgr.tower
           o == robj[retriers[t]] IN
       /\ retriers' = IF o.status \in {Running, Idle} THEN retriers
                      ELSE [retriers EXCEPT ![t] = 0]
       /\ robj' = Drop(robj, retriers', tasks)
       /\ mgr' = RetainPass(mgr.todo, retriers')
    /\ UNCHANGED <<owner, at, towers, wtRetriers, db, chan, sent, tasks, rpcOk>>

\* An auto-wake that fires as soon as the delay is reached.
IdleExpired_AtDelay(o) == o.status = Idle /\ o.idle >= AutoRetryDelay

\* Retrier::get_elapsed_time() > auto_retry_delay
IdleExpired(o) == o.status = Idle /\ o.idle > AutoRetryDelay

\* A should_start that does not look at the status.
should_start_AnyStatus(o) == o.pending # {}

\* Retrier::should_start: is_stopped() && has_pending_appointments()
should_start(o) == o.status = Stopped /\ o.pending # {}

\* The start pass, for one Retrier: should_start(), else get_elapsed_time().
\* A Retrier that turns Idle between the two reads has idled for 0 seconds.
MgrStartPick ==
    /\ mgr.pc = "st"
    /\ \E t \in mgr.todo :
         LET o == robj[retriers[t]]
             rest == mgr.todo \ {t} IN
         mgr' = IF should_start(o)
                THEN [mgr EXCEPT !.pc = "s_tower", !.tower = t, !.todo = rest]
                ELSE IF IdleExpired(o)
                THEN [mgr EXCEPT !.pc = "wake_w", !.tower = t, !.todo = rest, !.back = "st"]
                ELSE StartPass(rest)
    /\ UNCHANGED <<owner, at, towers, wtRetriers, db, chan, sent, retriers, robj, tasks, rpcOk>>

\* A start that flags the tower TemporaryUnreachable whatever its status.
StartTowerStatus_Always(tw, t) == set_tower_status(tw, t, TemporaryUnreachable)

\* Retrier::start, under the WTClient lock: get_tower_status(..).unwrap()
\* panics for a tower that left the registry; a status other than
\* SubscriptionError becomes TemporaryUnreachable.
StartTowerStatus(tw, t) ==
    IF tw[t] = SubscriptionError THEN tw
    ELSE set_tower_status(tw, t, TemporaryUnreachable)

MgrStartTower ==
    /\ mgr.pc = "s_tower"
    /\ ~Poisoned
    /\ IF towers[mgr.tower] = Absent
       THEN /\ mgr' = MgrAt("panicked")
            /\ retriers' = NoMap
            /\ robj' = Drop(robj, retriers', tasks)
            /\ UNCHANGED towers
       ELSE /\ towers' = StartTowerStatus(towers, mgr.tower)
            /\ mgr' = [mgr EXCEPT !.pc = "s_write"]
            /\ UNCHANGED <<retriers, robj>>
    /\ UNCHANGED <<owner, at, wtRetriers, db, chan, sent, tasks, rpcOk>>

\* wt_client.lock().unwrap() on the poisoned mutex: the manager task panics
\* and its RetryManager is dropped.  In the wake-up the lock is taken while
\* the pending_appointments lock is held, which poisons that one too.
MgrLocksWTClient ==
    mgr.pc \in {"m_tower", "wake_m", "wake_p", "rt_rm", "s_tower", "s_mirror"}

MgrLockPoisoned ==
    /\ Poisoned
    /\ MgrLocksWTClient
    /\ mgr' = [MgrAt("panicked") EXCEPT
                 !.held = IF mgr.pc = "wake_p" THEN retriers[mgr.tower] ELSE 0]
    /\ retriers' = NoMap
    /\ robj' = Drop(robj, retriers', tasks)
    /\ UNCHANGED <<owner, at, towers, wtRetriers, db, chan, sent, tasks, rpcOk>>

\* Retrier::start: set_status(RetrierStatus::Running), the status write.
MgrStartStatus ==
    /\ mgr.pc = "s_write"
    /\ LET r == retriers[mgr.tower] IN
       robj' = [robj EXCEPT ![r].status = Running]
    /\ mgr' = [mgr EXCEPT !.pc = "s_mirror"]
    /\ UNCHANGED <<owner, at, towers, wtRetriers, db, chan, sent, retriers, tasks, rpcOk>>

\* ... its mirror, wt_client.retriers.insert(tower_id, Running) (no task of
\* this Retrier can write the status before the new one is spawned), and
\* tokio::spawn of the campaign task.
StartSpawn(slots) ==
    /\ mgr.pc = "s_mirror"
    /\ ~Poisoned
    /\ FreeTaskSlots \cap slots # {}
    /\ wtRetriers' = [wtRetriers EXCEPT ![mgr.tower] = Running]
    /\ LET k == Lowest(FreeTaskSlots \cap slots) IN
       tasks' = [tasks EXCEPT ![k] = [FreeTask EXCEPT !.pc = "run", !.ret = retriers[mgr.tower]]]
    /\ mgr' = StartPass(mgr.todo)
    /\ UNCHANGED <<owner, at, towers, db, chan, sent, retriers, robj, rpcOk>>

MgrStartSpawn == StartSpawn(Tasks)

\* The same with MaxFairTasks task slots.
MgrStartSpawnFair == StartSpawn(1..MaxFairTasks)

\* tokio::time::sleep(Duration::from_secs(1)): every Idle(Instant) is one
\* second older.
Older(o) ==
    IF o.status = Idle /\ o.idle <= AutoRetryDelay
    THEN [o EXCEPT !.idle = @ + 1] ELSE o

MgrSleep ==
    /\ mgr.pc = "sleep"
    /\ robj' = [r \in Retriers |-> Older(robj[r])]
    /\ mgr' = MgrAt("recv")
    /\ UNCHANGED <<owner, at, towers, wtRetriers, db, chan, sent, retriers, tasks, rpcOk>>


\* ------------------------------------------------------------ campaign task
TowerOf(k) == robj[tasks[k].ret].tower

\* The task at another position, its other locals kept.
At(k, pc) == [tasks EXCEPT ![k].pc = pc]

\* A for loop that is left after its first locator.
NextLocator_Restart(locs) == "loop"

\* The for loop over the snapshot: the next locator, or back to the while
\* condition when the snapshot is used up.
NextLocator(locs) == IF locs = {} THEN "loop" ELSE "load"

\* The end of the spawned closure: the Arc of the Retrier is released.
Finish(tk, k) == [tk EXCEPT ![k] = FreeTask]

\* match e { .. } of the closure: the arm an error selects.
Arm(tk, k, e) ==
    CASE e.kind = ErrSubscription /\ e.permanent -> [tk EXCEPT ![k].pc = "f_tower", ![k].err = e]
      [] e.kind = ErrMisbehaving -> [tk EXCEPT ![k].pc = "f_tower", ![k].err = e]
      [] e.kind = ErrAbandoned -> Finish(tk, k)
      [] OTHER -> [tk EXCEPT ![k].pc = "idle_w", ![k].err = e]

\* retry_notify returns Err(e):  if e.is_permanent() { set_status(Failed) }
\* and then the match.
GaveUp(tk, k, e) ==
    IF is_permanent(e) THEN [tk EXCEPT ![k].pc = "fail_w", ![k].err = e]
    ELSE Arm(tk, k, e)

\* run() returns Err: backoff::Error::Permanent ends the driver at once,
\* backoff::Error::Transient leaves the decision to the backoff.
Returned(tk, k, e) ==
    IF e.permanent THEN GaveUp(tk, k, e)
    ELSE [tk EXCEPT ![k].pc = "backoff", ![k].err = e]

\* The outcomes of the network calls.
RegisterOutcomes == {"Receipt", "RequestError", "BadSignature"}
UpdateOutcomes == {"Ok", "Rejected"}
AddAppointmentOutcomes ==
    {"Ok", "Connection", "OtherRequestError", "SubscriptionApiError",
     "OtherApiError", "SignatureError"}

\* A run() that reports a tower missing from the registry as a transient
\* error.
RunSnapshot_AbandonedTransient(k) ==
    /\ tasks[k].pc = "run"
    /\ ~Poisoned
    /\ LET t == TowerOf(k) IN
       tasks' = IF towers[t] = Absent
                THEN Returned(tasks, k, Err(ErrAbandoned, FALSE))
                ELSE At(k, IF towers[t] = SubscriptionError THEN "register" ELSE "loop")
    /\ UNCHANGED <<owner, at, towers, wtRetriers, db, chan, sent, retriers, robj, mgr, rpcOk>>

\* run(), the snapshot under the WTClient lock: a tower that left the
\* registry is a permanent Abandoned; a SubscriptionError status leads to
\* the registration, any other to the loop over the pending appointments.
RunSnapshot(k) ==
    /\ tasks[k].pc = "run"
    /\ ~Poisoned
    /\ LET t == TowerOf(k) IN
       tasks' = IF towers[t] = Absent
                THEN Returned(tasks, k, Err(ErrAbandoned, TRUE))
                ELSE At(k, IF towers[t] = SubscriptionError THEN "register" ELSE "loop")
    /\ UNCHANGED <<owner, at, towers, wtRetriers, db, chan, sent, retriers, robj, mgr, rpcOk>>

\* http::register(..).await and receipt.verify(&tower_id).
Register(k) ==
    /\ tasks[k].pc = "register"
    /\ \E out \in RegisterOutcomes :
         tasks' = CASE out = "Receipt" -> At(k, "add_update")
                    [] out = "RequestError" -> Returned(tasks, k, Err(ErrSubscription, FALSE))
                    [] OTHER -> Returned(tasks, k, Err(ErrSubscription, TRUE))
    /\ UNCHANGED <<owner, at, towers, wtRetriers, db, chan, sent, retriers, robj, mgr, rpcOk>>

\* A run() that takes a receipt rejected by add_update_tower for a transient
\* failure and leaves the decision to the backoff.
AddUpdateTower_RejectedTransient(k) ==
    /\ tasks[k].pc = "add_update"
    /\ ~Poisoned
    /\ \E out \in UpdateOutcomes :
         tasks' = IF out = "Ok" THEN At(k, "loop")
                  ELSE Returned(tasks, k, Err(ErrSubscription, FALSE))
    /\ UNCHANGED <<owner, at, towers, wtRetriers, db, chan, sent, retriers, robj, mgr, rpcOk>>

\* wt_client.add_update_tower(tower_id, net_addr, &receipt): accepted, or
\* rejected for an expiry or a slot count that does not improve.
AddUpdateTower(k) ==
    /\ tasks[k].pc = "add_update"
    /\ ~Poisoned
    /\ \E out \in UpdateOutcomes :
         tasks' = IF out = "Ok" THEN At(k, "loop")
                  ELSE Returned(tasks, k, Err(ErrSubscription, TRUE))
    /\ UNCHANGED <<owner, at, towers, wtRetriers, db, chan, sent, retriers, robj, mgr, rpcOk>>

\* while self.has_pending_appointments() { let locators = pending.clone(); ..
\* An insertion between the two reads is one before both; a removal between
\* them leaves an empty for loop and the while condition is read again.
LoopHead(k) ==
    /\ tasks[k].pc = "loop"
    /\ ~PendingPoisoned(tasks[k].ret)
    /\ LET pend == robj[tasks[k].ret].pending IN
       tasks' = IF pend = {} THEN At(k, "ok_tower")
                ELSE [tasks EXCEPT ![k].pc = "load", ![k].locs = pend]
    /\ UNCHANGED <<owner, at, towers, wtRetriers, db, chan, sent, retriers, robj, mgr, rpcOk>>

\* dbm.load_appointment(locator).unwrap() for the next locator of the
\* snapshot, in any order; the task panics when the store has no body.
LoadAppointment(k) ==
    /\ tasks[k].pc = "load"
    /\ ~Poisoned
    /\ \E l \in tasks[k].locs :
         tasks' = IF HasAppointment(l)
                  THEN [tasks EXCEPT ![k].pc = "rpc", ![k].cur = l, ![k].locs = @ \ {l}]
                  ELSE Panic(tasks, k)
    /\ robj' = Drop(robj, retriers, tasks')
    /\ UNCHANGED <<owner, at, towers, wtRetriers, db, chan, sent, retriers, mgr, rpcOk>>

Count(c, t, l) == [c EXCEPT ![t][l] = IF @ < RpcCap THEN @ + 1 ELSE @]

\* A run() that forgets the locator whose add_appointment could not reach
\* the tower.
AddAppointment_ConnectionDrops(k) ==
    /\ tasks[k].pc = "rpc"
    /\ LET T == tasks[k]
           r == T.ret
           t == TowerOf(k)
           l == T.cur IN
       \E out \in AddAppointmentOutcomes :
         CASE out = "Ok" ->
                /\ rpcOk' = Count(rpcOk, t, l)
                /\ tasks' = IF PendingPoisoned(r) THEN Panic(tasks, k)
                            ELSE At(k, "store_ok")
                /\ robj' = IF PendingPoisoned(r) THEN Drop(robj, retriers, tasks')
                           ELSE [robj EXCEPT ![r].pending = @ \ {l}]
                /\ UNCHANGED towers
           [] out = "Connection" ->
                /\ tasks' = Returned(tasks, k, Err(ErrUnreachable, FALSE))
                /\ robj' = [robj EXCEPT ![r].pending = @ \ {l}]
                /\ UNCHANGED <<towers, rpcOk>>
           [] out = "OtherRequestError" ->
                /\ tasks' = [tasks EXCEPT ![k].pc = NextLocator(T.locs), ![k].cur = 0]
                /\ UNCHANGED <<towers, robj, rpcOk>>
           [] out = "SubscriptionApiError" ->
                /\ towers' = IF Poisoned THEN towers
                             ELSE set_tower_status(towers, t, SubscriptionError)
                /\ tasks' = IF Poisoned THEN Panic(tasks, k)
                            ELSE Returned(tasks, k, Err(ErrSubscription, FALSE))
                /\ robj' = Drop(robj, retriers, tasks')
                /\ UNCHANGED rpcOk
           [] out = "OtherApiError" ->
                /\ tasks' = IF PendingPoisoned(r) THEN Panic(tasks, k)
                            ELSE At(k, "store_inv")
                /\ robj' = IF PendingPoisoned(r) THEN Drop(robj, retriers, tasks')
                           ELSE [robj EXCEPT ![r].pending = @ \ {l}]
                /\ UNCHANGED <<towers, rpcOk>>
           [] OTHER ->
                /\ tasks' = Returned(tasks, k, Err(ErrMisbehaving, TRUE))
                /\ UNCHANGED <<towers, robj, rpcOk>>
    /\ UNCHANGED <<owner, at, wtRetriers, db, chan, sent, retriers, mgr>>

\* http::add_appointment(..).await and the first statement of the arm of
\* the match its result selects; that statement panics on a poisoned lock.
AddAppointment(k) ==
    /\ tasks[k].pc = "rpc"
    /\ LET T == tasks[k]
           r == T.ret
           t == TowerOf(k)
           l == T.cur IN
       \E out \in AddAppointmentOutcomes :
         CASE out = "Ok" ->
                /\ rpcOk' = Count(rpcOk, t, l)
                /\ tasks' = IF PendingPoisoned(r) THEN Panic(tasks, k)
                            ELSE At(k, "store_ok")
                /\ robj' = IF PendingPoisoned(r) THEN Drop(robj, retriers, tasks')
                           ELSE [robj EXCEPT ![r].pending = @ \ {l}]
                /\ UNCHANGED towers
           [] out = "Connection" ->
                /\ tasks' = Returned(tasks, k, Err(ErrUnreachable, FALSE))
                /\ UNCHANGED <<towers, robj, rpcOk>>
           [] out = "OtherRequestError" ->
                /\ tasks' = [tasks EXCEPT ![k].pc = NextLocator(T.locs), ![k].cur = 0]
                /\ UNCHANGED <<towers, robj, rpcOk>>
           [] out = "SubscriptionApiError" ->
                /\ towers' = IF Poisoned THEN towers
                             ELSE set_tower_status(towers, t, SubscriptionError)
                /\ tasks' = IF Poisoned THEN Panic(tasks, k)
                            ELSE Returned(tasks, k, Err(ErrSubscription, FALSE))
                /\ robj' = Drop(robj, retriers, tasks')
                /\ UNCHANGED rpcOk
           [] out = "OtherApiError" ->
                /\ tasks' = IF PendingPoisoned(r) THEN Panic(tasks, k)
                            ELSE At(k, "store_inv")
                /\ robj' = IF PendingPoisoned(r) THEN Drop(robj, retriers, tasks')
                           ELSE [robj EXCEPT ![r].pending = @ \ {l}]
                /\ UNCHANGED <<towers, rpcOk>>
           [] OTHER ->
                /\ tasks' = Returned(tasks, k, Err(ErrMisbehaving, TRUE))
                /\ UNCHANGED <<towers, robj, rpcOk>>
    /\ UNCHANGED <<owner, at, wtRetriers, db, chan, sent, retriers, mgr>>

\* WTClient.add_appointment_receipt then WTClient.remove_pending_appointment,
\* under one WTClient lock; neither touches a tower that left the registry.
StoreDelivered(d, tw, t, l) ==
    IF tw[t] = Absent THEN d
    ELSE [d EXCEPT !.receipts[t] = @ \cup {l}, !.pending[t] = @ \ {l}]

\* WTClient.add_invalid_appointment then WTClient.remove_pending_appointment.
StoreInvalid(d, tw, t, l) ==
    IF tw[t] = Absent THEN d
    ELSE [d EXCEPT !.invalid[t] = @ \cup {l}, !.pending[t] = @ \ {l}]

StoreReceipt(k) ==
    /\ tasks[k].pc = "store_ok"
    /\ ~Poisoned
    /\ db' = StoreDelivered(db, towers, TowerOf(k), tasks[k].cur)
    /\ tasks' = [tasks EXCEPT ![k].pc = NextLocator(tasks[k].locs), ![k].cur = 0]
    /\ UNCHANGED <<owner, at, towers, wtRetriers, chan, sent, retriers, robj, mgr, rpcOk>>

\* A rejection arm that records the appointment as invalid and leaves its
\* Pending row in the store.
StoreRejected_KeepsPending(k) ==
    /\ tasks[k].pc = "store_inv"
    /\ ~Poisoned
    /\ db' = [db EXCEPT !.invalid[TowerOf(k)] = @ \cup {tasks[k].cur}]
    /\ tasks' = [tasks EXCEPT ![k].pc = NextLocator(tasks[k].locs), ![k].cur = 0]
    /\ UNCHANGED <<owner, at, towers, wtRetriers, chan, sent, retriers, robj, mgr, rpcOk>>

StoreRejected(k) ==
    /\ tasks[k].pc = "store_inv"
    /\ ~Poisoned
    /\ db' = StoreInvalid(db, towers, TowerOf(k), tasks[k].cur)
    /\ tasks' = [tasks EXCEPT ![k].pc = NextLocator(tasks[k].locs), ![k].cur = 0]
    /\ UNCHANGED <<owner, at, towers, wtRetriers, chan, sent, retriers, robj, mgr, rpcOk>>

\* retry_notify after a transient error, while max_elapsed_time is not
\* exceeded: run() again after the sleep.
BackoffRetry(k) ==
    /\ tasks[k].pc = "backoff"
    /\ tasks' = [tasks EXCEPT ![k].pc = "run", ![k].locs = {}, ![k].cur = 0,
                              ![k].err = Err(NoErr, FALSE)]
    /\ UNCHANGED <<owner, at, towers, wtRetriers, db, chan, sent, retriers, robj, mgr, rpcOk>>

\* The same, with the attempts counted: the elapsed time grows with every
\* attempt and exceeds max_elapsed_time after MaxAttempts of them.
BackoffRetryBounded(k) ==
    /\ tasks[k].pc = "backoff"
    /\ tasks[k].att + 1 < MaxAttempts
    /\ tasks' = [tasks EXCEPT ![k].pc = "run", ![k].locs = {}, ![k].cur = 0,
                              ![k].err = Err(NoErr, FALSE), ![k].att = @ + 1]
    /\ UNCHANGED <<owner, at, towers, wtRetriers, db, chan, sent, retriers, robj, mgr, rpcOk>>

\* retry_notify after a transient error, max_elapsed_time exceeded: Err(e).
BackoffGiveUp(k) ==
    /\ tasks[k].pc = "backoff"
    /\ tasks' = GaveUp([tasks EXCEPT ![k].locs = {}, ![k].cur = 0], k, tasks[k].err)
    /\ robj' = Drop(robj, retriers, tasks')
    /\ UNCHANGED <<owner, at, towers, wtRetriers, db, chan, sent, retriers, mgr, rpcOk>>

\* Ok(_): set_tower_status(tower_id, TowerStatus::Reachable).
OkTower(k) ==
    /\ tasks[k].pc = "ok_tower"
    /\ ~Poisoned
    /\ towers' = set_tower_status(towers, TowerOf(k), Reachable)
    /\ tasks' = At(k, "ok_w")
    /\ UNCHANGED <<owner, at, wtRetriers, db, chan, sent, retriers, robj, mgr, rpcOk>>

\* set_status(status), first statement: *self.status.lock().unwrap() = status,
\* with Stopped after Ok, Failed after a permanent error, Idle(Instant::now())
\* in the last arm of the match.  Failed is final: is_running(), is_idle()
\* and is_stopped() then read false and wt_client.retriers is left alone.
OutcomeStatus(pc) ==
    CASE pc = "ok_w" -> Stopped
      [] pc = "fail_w" -> Failed
      [] OTHER -> Idle

SetStatusWrite(k) ==
    /\ tasks[k].pc \in {"ok_w", "fail_w", "idle_w"}
    /\ LET s == OutcomeStatus(tasks[k].pc)
           r == tasks[k].ret IN
       /\ tasks' = IF s = Failed THEN Arm(tasks, k, tasks[k].err)
                   ELSE At(k, IF s = Stopped THEN "stop_r1" ELSE "idle_r1")
       /\ robj' = Drop([robj EXCEPT ![r].status = s, ![r].idle = 0], retriers, tasks')
    /\ UNCHANGED <<owner, at, towers, wtRetriers, db, chan, sent, retriers, mgr, rpcOk>>

\* The status set_status was called with, by the position of the task.
IsStop(pc) == pc \in {"stop_r1", "stop_r2", "stop_r3", "stop_ins", "stop_rem"}
Arg(pc) == IF IsStop(pc) THEN Stopped ELSE Idle

\* What follows set_status in the closure: nothing after Stopped; in the
\* Idle arm pending_appointments.clear() and the tower status.
AfterSetStatus(k) ==
    IF IsStop(tasks[k].pc) THEN Finish(tasks, k) ELSE At(k, "i_clear")

\* set_status: self.is_running()
SetStatusIsRunning(k) ==
    /\ tasks[k].pc \in {"stop_r1", "idle_r1"}
    /\ tasks' = IF robj[tasks[k].ret].status = Running
                THEN At(k, IF IsStop(tasks[k].pc) THEN "stop_ins" ELSE "idle_ins")
                ELSE At(k, IF IsStop(tasks[k].pc) THEN "stop_r2" ELSE "idle_r2")
    /\ UNCHANGED <<owner, at, towers, wtRetriers, db, chan, sent, retriers, robj, mgr, rpcOk>>

\* set_status: || self.is_idle()
SetStatusIsIdle(k) ==
    /\ tasks[k].pc \in {"stop_r2", "idle_r2"}
    /\ tasks' = IF robj[tasks[k].ret].status = Idle
                THEN At(k, IF IsStop(tasks[k].pc) THEN "stop_ins" ELSE "idle_ins")
                ELSE At(k, IF IsStop(tasks[k].pc) THEN "stop_r3" ELSE "idle_r3")
    /\ UNCHANGED <<owner, at, towers, wtRetriers, db, chan, sent, retriers, robj, mgr, rpcOk>>

\* set_status: else if self.is_stopped()
SetStatusIsStopped(k) ==
    /\ tasks[k].pc \in {"stop_r3", "idle_r3"}
    /\ tasks' = IF robj[tasks[k].ret].status = Stopped
                THEN At(k, IF IsStop(tasks[k].pc) THEN "stop_rem" ELSE "idle_rem")
                ELSE AfterSetStatus(k)
    /\ robj' = Drop(robj, retriers, tasks')
    /\ UNCHANGED <<owner, at, towers, wtRetriers, db, chan, sent, retriers, mgr, rpcOk>>

\* set_status: wt_client.retriers.insert(self.tower_id, status)
SetStatusInsert(k) ==
    /\ tasks[k].pc \in {"stop_ins", "idle_ins"}
    /\ ~Poisoned
    /\ wtRetriers' = [wtRetriers EXCEPT ![TowerOf(k)] = Arg(tasks[k].pc)]
    /\ tasks' = AfterSetStatus(k)
    /\ robj' = Drop(robj, retriers, tasks')
    /\ UNCHANGED <<owner, at, towers, db, chan, sent, retriers, mgr, rpcOk>>

\* set_status: wt_client.retriers.remove(&self.tower_id)
SetStatusRemove(k) ==
    /\ tasks[k].pc \in {"stop_rem", "idle_rem"}
    /\ ~Poisoned
    /\ wtRetriers' = [wtRetriers EXCEPT ![TowerOf(k)] = NoEntry]
    /\ tasks' = AfterSetStatus(k)
    /\ robj' = Drop(robj, retriers, tasks')
    /\ UNCHANGED <<owner, at, towers, db, chan, sent, retriers, mgr, rpcOk>>

\* The arms of a permanent error: set_tower_status(.., SubscriptionError) for
\* Subscription(_, true), flag_misbehaving_tower for Misbehaving(proof).
FailedTowerStatus(tw, t, e) ==
    IF e.kind = ErrMisbehaving THEN flag_misbehaving_tower(tw, t)
    ELSE set_tower_status(tw, t, SubscriptionError)

FailedTower(k) ==
    /\ tasks[k].pc = "f_tower"
    /\ ~Poisoned
    /\ towers' = FailedTowerStatus(towers, TowerOf(k), tasks[k].err)
    /\ tasks' = Finish(tasks, k)
    /\ robj' = Drop(robj, retriers, tasks')
    /\ UNCHANGED <<owner, at, wtRetriers, db, chan, sent, retriers, mgr, rpcOk>>

\* The Idle arm: self.pending_appointments.lock().unwrap().clear()
IdleClear(k) ==
    /\ tasks[k].pc = "i_clear"
    /\ ~PendingPoisoned(tasks[k].ret)
    /\ robj' = [robj EXCEPT ![tasks[k].ret].pending = {}]
    /\ tasks' = At(k, "i_tower")
    /\ UNCHANGED <<owner, at, towers, wtRetriers, db, chan, sent, retriers, mgr, rpcOk>>

\* The Idle arm: set_tower_status(tower_id, TowerStatus::Unreachable)
IdleTower(k) ==
    /\ tasks[k].pc = "i_tower"
    /\ ~Poisoned
    /\ towers' = set_tower_status(towers, TowerOf(k), Unreachable)
    /\ tasks' = Finish(tasks, k)
    /\ robj' = Drop(robj, retriers, tasks')
    /\ UNCHANGED <<owner, at, wtRetriers, db, chan, sent, retriers, mgr, rpcOk>>

\* A lock().unwrap() of the task on a poisoned mutex: the WTClient's where
\* the task takes that lock next, the pending_appointments' in the while
\* condition and in the clear().
TaskLocksPoisoned(k) ==
    \/ /\ Poisoned
       /\ tasks[k].pc \in {"run", "add_update", "load", "store_ok", "store_inv",
                            "ok_tower", "stop_ins", "stop_rem", "idle_ins",
                            "idle_rem", "f_tower", "i_tower"}
    \/ /\ tasks[k].pc \in {"loop", "i_clear"}
       /\ PendingPoisoned(tasks[k].ret)

TaskLockPoisoned(k) ==
    /\ TaskLocksPoisoned(k)
    /\ tasks' = Panic(tasks, k)
    /\ robj' = Drop(robj, retriers, tasks')
    /\ UNCHANGED <<owner, at, towers, wtRetriers, db, chan, sent, retriers, mgr, rpcOk>>

\* ------------------------------------------------------------ specification
Producer ==
    \E t \in Towers :
        \/ \E l \in Locators : SendFresh(t, l)
        \/ SendStale(t)
        \/ SendNone(t)
        \/ AbandonTower(t)

ManagerSteps ==
    \/ MgrRecvMsg
    \/ MgrRecvEmpty
    \/ MgrCheckTower
    \/ MgrIsIdle
    \/ MgrAddPending
    \/ MgrWakeStatus
    \/ MgrWakeMirror
    \/ MgrWakeLoad
    \/ MgrRetainFailed
    \/ MgrRetainRemove
    \/ MgrRetainShouldStart
    \/ MgrRetainRunning
    \/ MgrStartPick
    \/ MgrStartTower
    \/ MgrStartStatus
    \/ MgrSleep
    \/ MgrLockPoisoned

Manager == ManagerSteps \/ MgrStartSpawn

CampaignSteps(k) ==
    \/ RunSnapshot(k)
    \/ Register(k)
    \/ AddUpdateTower(k)
    \/ LoopHead(k)
    \/ LoadAppointment(k)
    \/ AddAppointment(k)
    \/ StoreReceipt(k)
    \/ StoreRejected(k)
    \/ BackoffGiveUp(k)
    \/ TaskLockPoisoned(k)
    \/ OkTower(k)
    \/ SetStatusWrite(k)
    \/ SetStatusIsRunning(k)
    \/ SetStatusIsIdle(k)
    \/ SetStatusIsStopped(k)
    \/ SetStatusInsert(k)
    \/ SetStatusRemove(k)
    \/ FailedTower(k)
    \/ IdleClear(k)
    \/ IdleTower(k)

Campaign(k) == CampaignSteps(k) \/ BackoffRetry(k)

Next == Producer \/ Manager \/ \E k \in Tasks : Campaign(k)

Spec == Init /\ [][Next]_vars

\* Campaigns bounded by max_elapsed_time and run in MaxFairTasks task slots,
\* under the scheduling the runtime gives: the manager task and every spawned
\* task keep being polled, and every network call returns.
CampaignBounded(k) == CampaignSteps(k) \/ BackoffRetryBounded(k)

ManagerFair == ManagerSteps \/ MgrStartSpawnFair

FairNext == Producer \/ ManagerFair \/ \E k \in Tasks : CampaignBounded(k)

FairSpec ==
    /\ Init
    /\ [][FairNext]_vars
    /\ WF_vars(ManagerFair)
    /\ \A k \in Tasks : WF_vars(CampaignBounded(k))

\* ------------------------------------------------------------ happy path
\* The engine with a tower that is registered with a valid subscription,
\* stays in the registry and answers every add_appointment with 200 and a
\* valid signed receipt (the mock of test_manage_retry_reachable), under the
\* same scheduling as FairSpec.  No transient or permanent error arises, so
\* the steps of the error arms, of idling and of the wake-ups do not occur.
AnswersOk(k) == AddAppointment(k) /\ tasks'[k].pc = "store_ok"

HappyInit == Init /\ towers = [t \in Towers |-> Reachable]

HappyProducer ==
    \E t \in Towers :
        \/ \E l \in Locators : SendFresh(t, l)
        \/ SendStale(t)
        \/ SendNone(t)

HappyManager ==
    \/ MgrRecvMsg
    \/ MgrRecvEmpty
    \/ MgrCheckTower
    \/ MgrIsIdle
    \/ MgrAddPending
    \/ MgrRetainFailed
    \/ MgrRetainShouldStart
    \/ MgrRetainRunning
    \/ MgrStartPick
    \/ MgrStartTower
    \/ MgrStartStatus
    \/ MgrStartSpawn
    \/ MgrSleep

HappyCampaign(k) ==
    \/ RunSnapshot(k)
    \/ LoopHead(k)
    \/ LoadAppointment(k)
    \/ AnswersOk(k)
    \/ StoreReceipt(k)
    \/ TaskLockPoisoned(k)
    \/ OkTower(k)
    \/ SetStatusWrite(k)
    \/ SetStatusIsRunning(k)
    \/ SetStatusIsIdle(k)
    \/ SetStatusIsStopped(k)
    \/ SetStatusInsert(k)
    \/ SetStatusRemove(k)

HappyNext == HappyProducer \/ HappyManager \/ \E k \in Tasks : HappyCampaign(k)

HappySpec ==
    /\ HappyInit
    /\ [][HappyNext]_vars
    /\ WF_vars(HappyManager)
    /\ \A k \in Tasks : WF_vars(HappyCampaign(k))

\* ------------------------------------------------------------ renewal
\* The engine with a tower that is registered but flagged SubscriptionError,
\* whose register endpoint returns a valid receipt that improves the
\* subscription and which then answers every add_appointment with 200 and a
\* valid signed receipt (the mock of test_manage_retry_subscription_error),
\* under the same scheduling as FairSpec.
RegisterOk(k) == Register(k) /\ tasks'[k].pc = "add_update"

UpdateOk(k) == AddUpdateTower(k) /\ tasks'[k].pc = "loop"

RenewInit == Init /\ towers = [t \in Towers |-> SubscriptionError]

RenewCampaign(k) == HappyCampaign(k) \/ RegisterOk(k) \/ UpdateOk(k)

RenewNext == HappyProducer \/ HappyManager \/ \E k \in Tasks : RenewCampaign(k)

RenewSpec ==
    /\ RenewInit
    /\ [][RenewNext]_vars
    /\ WF_vars(HappyManager)
    /\ \A k \in Tasks : WF_vars(RenewCampaign(k))

\* ------------------------------------------------------------ run() alone
\* Retrier::new(wt_client, tower_id, locators) followed by run(), as the
\* test_retry_tower_* tests call it: the tower is in the registry with the
\* locators stored as pending, or has been removed from it with its rows;
\* no manager and no producer runs, and run() ends where it returns.
RunTask == 1
RunRetrier == 1

RunInit ==
    /\ towers \in [Towers -> {Reachable, SubscriptionError, Absent}]
    /\ wtRetriers = [t \in Towers |-> NoEntry]
    /\ \E pend \in SUBSET RunLocators :
         /\ db = [pending |-> [t \in Towers |-> IF towers[t] = Absent THEN {} ELSE pend],
                  invalid |-> [t \in Towers |-> {}],
                  receipts |-> [t \in Towers |-> {}]]
         /\ robj = [r \in Retriers |->
                      IF r = RunRetrier
                      THEN [tower |-> 1, status |-> Stopped, pending |-> pend, idle |-> 0]
                      ELSE FreeRetrier]
    /\ chan = <<>>
    /\ sent = 0
    /\ retriers = [t \in Towers |-> 0]
    /\ mgr = MgrAt("recv")
    /\ tasks = [k \in Tasks |->
                  IF k = RunTask THEN [FreeTask EXCEPT !.pc = "run", !.ret = RunRetrier]
                  ELSE FreeTask]
    /\ rpcOk = [t \in Towers |-> [l \in AllLocators |-> 0]]
    /\ owner = [l \in LockNames |-> {}]
    /\ at = [p \in LockProcs |->
                IF p = ManagerProc THEN Pos("try_recv") ELSE Pos("unspawned")]

RunStep(k) ==
    \/ RunSnapshot(k)
    \/ Register(k)
    \/ AddUpdateTower(k)
    \/ LoopHead(k)
    \/ LoadAppointment(k)
    \/ AddAppointment(k)
    \/ StoreReceipt(k)
    \/ StoreRejected(k)

RunNext == \E k \in Tasks : RunStep(k)

RunSpec == RunInit /\ [][RunNext]_vars

\* ------------------------------------------------------------ auto-retry
\* The engine of test_manage_retry_unreachable: one Fresh message for a
\* registered tower that answers add_appointment either with a connection
\* error or with 200 and a valid signed receipt, under the same scheduling
\* as FairSpec.  A campaign that gives up on connection errors leaves the
\* Retrier Idle, and the manager wakes it once auto_retry_delay has passed.
AnswersUnreachable(k) == AddAppointment(k) /\ tasks'[k].err.kind = ErrUnreachable

RecoverProducer == sent = 0 /\ \E t \in Towers : \E l \in Locators : SendFresh(t, l)

RecoverManager ==
    \/ MgrRecvMsg
    \/ MgrRecvEmpty
    \/ MgrCheckTower
    \/ MgrWakeStatus
    \/ MgrWakeMirror
    \/ MgrWakeLoad
    \/ MgrRetainFailed
    \/ MgrRetainShouldStart
    \/ MgrRetainRunning
    \/ MgrStartPick
    \/ MgrStartTower
    \/ MgrStartStatus
    \/ MgrStartSpawn
    \/ MgrSleep

RecoverCampaign(k) ==
    \/ RunSnapshot(k)
    \/ LoopHead(k)
    \/ LoadAppointment(k)
    \/ AnswersOk(k)
    \/ AnswersUnreachable(k)
    \/ StoreReceipt(k)
    \/ OkTower(k)
    \/ SetStatusWrite(k)
    \/ SetStatusIsRunning(k)
    \/ SetStatusIsIdle(k)
    \/ SetStatusIsStopped(k)
    \/ SetStatusInsert(k)
    \/ SetStatusRemove(k)
    \/ BackoffRetryBounded(k)
    \/ BackoffGiveUp(k)
    \/ IdleClear(k)
    \/ IdleTower(k)

RecoverNext == RecoverProducer \/ RecoverManager \/ \E k \in Tasks : RecoverCampaign(k)

RecoverSpec ==
    /\ HappyInit
    /\ [][RecoverNext]_vars
    /\ WF_vars(RecoverManager)
    /\ \A k \in Tasks : WF_vars(RecoverCampaign(k))

\* ------------------------------------------------------------ channel close
\* The engine with senders that can be dropped.  An unbounded channel whose
\* senders are all gone still hands out what is queued; try_recv returns
\* Disconnected once the queue is empty.  The closed channel is the queue
\* with Hangup as its last element.  Scheduling is that of FairSpec.
Hangup == [tower |-> 0, data |-> None]

SendersDropped == chan # <<>> /\ chan[Len(chan)] = Hangup

DropSenders ==
    /\ ~SendersDropped
    /\ chan' = Append(chan, Hangup)
    /\ UNCHANGED <<owner, at, towers, wtRetriers, db, sent, retriers, robj, mgr, tasks, rpcOk>>

CloseProducer == ~SendersDropped /\ Producer

\* try_recv() returns Ok((tower_id, data)).
MgrRecvQueued == chan # <<>> /\ Head(chan) # Hangup /\ MgrRecvMsg

\* Err(TryRecvError::Disconnected) => break
MgrDisconnected ==
    /\ mgr.pc = "recv"
    /\ chan = <<Hangup>>
    /\ mgr' = MgrAt("done")
    /\ UNCHANGED <<owner, at, towers, wtRetriers, db, chan, sent, retriers, robj, tasks, rpcOk>>

CloseManager ==
    \/ MgrRecvQueued
    \/ MgrDisconnected
    \/ MgrRecvEmpty
    \/ MgrCheckTower
    \/ MgrIsIdle
    \/ MgrAddPending
    \/ MgrWakeStatus
    \/ MgrWakeMirror
    \/ MgrWakeLoad
    \/ MgrRetainFailed
    \/ MgrRetainRemove
    \/ MgrRetainShouldStart
    \/ MgrRetainRunning
    \/ MgrStartPick
    \/ MgrStartTower
    \/ MgrStartStatus
    \/ MgrStartSpawnFair
    \/ MgrSleep
    \/ MgrLockPoisoned

CloseNext ==
    CloseProducer \/ DropSenders \/ CloseManager \/ \E k \in Tasks : CampaignBounded(k)

CloseSpec ==
    /\ Init
    /\ [][CloseNext]_vars
    /\ WF_vars(CloseManager)
    /\ \A k \in Tasks : WF_vars(CampaignBounded(k))

\* ------------------------------------------------------------ lock scopes
\* This specification follows the scope of every MutexGuard of the
\* file.  A statement takes its locks in the order the expression evaluates
\* them and drops them all at its end (temporaries at the end of the
\* statement, a named guard at the end of its block); data is left out, so a
\* branch is a choice.  One Retrier, its tasks and the manager contend.

\* A statement that takes its locks in the opposite order.
St_Reversed(locks, await, next) ==
    [locks |-> [i \in 1..Len(locks) |-> locks[Len(locks) + 1 - i]],
     await |-> await, next |-> next]

\* A statement: the locks it takes, whether it awaits, where control goes.
St(locks, await, next) == [locks |-> locks, await |-> await, next |-> next]
To(stmts, ret) == {[stmt |-> x, ret |-> ret] : x \in stmts}
\* A call of set_status that returns to statement ret.
Call(ret) == To({"set_status_write"}, ret)

\* http::register awaited with a guard of the WTClient among its arguments.
HttpRegister_UnderLock(ret) ==
    St(<<"wt_client">>, TRUE, To({"add_update_tower", "backoff", "closure_err"}, ret))

\* run: http::register(tower_id, user_id, &net_addr, &proxy).await, on the
\* copies taken in the scope of lines 435-450; then the receipt is verified.
HttpRegister(ret) ==
    St(<<>>, TRUE, To({"add_update_tower", "backoff", "closure_err"}, ret))

\* manage_retry, from try_recv to the end of the start pass.
ManagerProgram(s, ret) ==
    CASE s = "try_recv" ->
           St(<<>>, FALSE, To({"contains_key", "retain_failed"}, ret))
      [] s = "contains_key" ->
           St(<<"wt_client">>, FALSE,
              To({"try_recv", "recv_is_idle", "add_vacant"}, ret))
      [] s = "recv_is_idle" ->
           St(<<"status">>, FALSE,
              To({"try_recv", "add_occupied"}, ret) \cup Call("recv_load"))
      [] s = "recv_load" ->
           St(<<"pending", "wt_client">>, FALSE, To({"try_recv"}, ret))
      [] s = "add_vacant" ->
           St(<<>>, FALSE, To({"try_recv"}, ret))
      [] s = "add_occupied" ->
           St(<<"pending">>, FALSE, To({"try_recv"}, ret))
      [] s = "retain_failed" ->
           St(<<"status">>, FALSE, To({"retain_remove", "retain_is_stopped"}, ret))
      [] s = "retain_remove" ->
           St(<<"wt_client">>, FALSE, To({"retain_is_stopped"}, ret))
      [] s = "retain_is_stopped" ->
           St(<<"status">>, FALSE,
              To({"retain_has_pending", "retain_is_running"}, ret))
      [] s = "retain_has_pending" ->
           St(<<"pending">>, FALSE,
              To({"start_is_stopped", "retain_is_running"}, ret))
      [] s = "retain_is_running" ->
           St(<<"status">>, FALSE, To({"start_is_stopped", "retain_is_idle"}, ret))
      [] s = "retain_is_idle" ->
           St(<<"status">>, FALSE, To({"start_is_stopped", "sleep"}, ret))
      [] s = "start_is_stopped" ->
           St(<<"status">>, FALSE, To({"start_has_pending", "start_elapsed"}, ret))
      [] s = "start_has_pending" ->
           St(<<"pending">>, FALSE, To({"start_assert", "start_elapsed"}, ret))
      [] s = "start_assert" ->
           St(<<"status">>, FALSE, To({"start_tower"}, ret))
      [] s = "start_tower" ->
           St(<<"wt_client">>, FALSE, Call("spawn"))
      [] s = "spawn" ->
           St(<<>>, FALSE, To({"sleep"}, ret))
      [] s = "start_elapsed" ->
           St(<<"status">>, FALSE, To({"sleep"}, ret) \cup Call("start_load"))
      [] s = "start_load" ->
           St(<<"pending", "wt_client">>, FALSE, To({"sleep"}, ret))
      [] s = "sleep" ->
           St(<<>>, TRUE, To({"try_recv"}, ret))

\* Retrier::set_status, called by the manager and by the campaign task.
SetStatusProgram(s, ret) ==
    CASE s = "set_status_write" ->
           St(<<"status">>, FALSE, To({"set_status_is_running"}, ret))
      [] s = "set_status_is_running" ->
           St(<<"status">>, FALSE,
              To({"set_status_insert", "set_status_is_idle"}, ret))
      [] s = "set_status_is_idle" ->
           St(<<"status">>, FALSE,
              To({"set_status_insert", "set_status_is_stopped"}, ret))
      [] s = "set_status_insert" ->
           St(<<"wt_client">>, FALSE, To({ret}, "none"))
      [] s = "set_status_is_stopped" ->
           St(<<"status">>, FALSE, To({"set_status_remove"}, ret) \cup To({ret}, "none"))
      [] s = "set_status_remove" ->
           St(<<"wt_client">>, FALSE, To({ret}, "none"))

\* The campaign task: run inside retry_notify, then the closure's match.
CampaignProgram(s, ret) ==
    CASE s = "run_snapshot" ->
           St(<<"wt_client">>, FALSE,
              To({"register", "loop_has_pending", "closure_err"}, ret))
      [] s = "register" -> HttpRegister(ret)
      [] s = "add_update_tower" ->
           St(<<"wt_client">>, FALSE, To({"loop_has_pending", "closure_err"}, ret))
      [] s = "loop_has_pending" ->
           St(<<"pending">>, FALSE, To({"loop_clone", "closure_ok"}, ret))
      [] s = "loop_clone" ->
           St(<<"pending">>, FALSE, To({"load_appointment"}, ret))
      [] s = "load_appointment" ->
           St(<<"wt_client">>, FALSE, To({"add_appointment"}, ret))
      [] s = "add_appointment" ->
           St(<<>>, TRUE,
              To({"ok_remove_pending", "backoff", "closure_err", "err_subscription",
                  "err_remove_pending", "load_appointment", "loop_has_pending"}, ret))
      [] s = "ok_remove_pending" ->
           St(<<"pending">>, FALSE, To({"ok_receipt"}, ret))
      [] s = "ok_receipt" ->
           St(<<"wt_client">>, FALSE, To({"load_appointment", "loop_has_pending"}, ret))
      [] s = "err_subscription" ->
           St(<<"wt_client">>, FALSE, To({"backoff", "closure_err"}, ret))
      [] s = "err_remove_pending" ->
           St(<<"pending">>, FALSE, To({"err_invalid"}, ret))
      [] s = "err_invalid" ->
           St(<<"wt_client">>, FALSE, To({"load_appointment", "loop_has_pending"}, ret))
      [] s = "backoff" ->
           St(<<>>, TRUE, To({"run_snapshot"}, ret))
      [] s = "closure_ok" ->
           St(<<"wt_client">>, FALSE, Call("unspawned"))
      [] s = "closure_err" ->
           St(<<>>, FALSE,
              Call("err_tower") \cup Call("unspawned") \cup Call("idle_clear"))
      [] s = "err_tower" ->
           St(<<"wt_client">>, FALSE, To({"unspawned"}, ret))
      [] s = "idle_clear" ->
           St(<<"pending">>, FALSE, To({"idle_tower"}, ret))
      [] s = "idle_tower" ->
           St(<<"wt_client">>, FALSE, To({"unspawned"}, ret))

SetStatusStmts ==
    {"set_status_write", "set_status_is_running", "set_status_is_idle",
     "set_status_insert", "set_status_is_stopped", "set_status_remove"}

Program(p, s, ret) ==
    IF s \in SetStatusStmts THEN SetStatusProgram(s, ret)
    ELSE IF p = ManagerProc THEN ManagerProgram(s, ret)
    ELSE CampaignProgram(s, ret)

StmtOf(p) == Program(p, at[p].stmt, at[p].ret)
Held(p) == {l \in LockNames : p \in owner[l]}
Walking(p) == at[p].stmt # "unspawned" /\ ~at[p].susp

\* MutexGuard acquisition: lock() blocks while another process has the guard.
LockAcquire(p) ==
    /\ Walking(p)
    /\ at[p].got < Len(StmtOf(p).locks)
    /\ LET l == StmtOf(p).locks[at[p].got + 1] IN
       /\ owner[l] = {}
       /\ owner' = [owner EXCEPT ![l] = {p}]
    /\ at' = [at EXCEPT ![p].got = @ + 1]
    /\ UNCHANGED <<towers, wtRetriers, db, chan, sent, retriers, robj, mgr, tasks, rpcOk>>

\* The guards taken by the statement are dropped.
Released(p) == [l \in LockNames |-> owner[l] \ {p}]
Goto(p, n) == [at EXCEPT ![p] = [Pos(n.stmt) EXCEPT !.ret = n.ret]]

\* The end of a statement without await: its guards drop, control moves on.
LockStatementEnd(p) ==
    /\ Walking(p)
    /\ ~StmtOf(p).await
    /\ at[p].stmt # "spawn"
    /\ at[p].got = Len(StmtOf(p).locks)
    /\ owner' = Released(p)
    /\ \E n \in StmtOf(p).next : at' = Goto(p, n)
    /\ UNCHANGED <<towers, wtRetriers, db, chan, sent, retriers, robj, mgr, tasks, rpcOk>>

\* .await: the task yields to the runtime with whatever guards it has.
LockSuspend(p) ==
    /\ Walking(p)
    /\ StmtOf(p).await
    /\ at[p].got = Len(StmtOf(p).locks)
    /\ at' = [at EXCEPT ![p].susp = TRUE]
    /\ UNCHANGED <<towers, wtRetriers, db, chan, sent, retriers, robj, mgr, tasks, rpcOk,
                   owner>>

\* The awaited future completes: the statement ends.
LockResume(p) ==
    /\ at[p].susp
    /\ owner' = Released(p)
    /\ \E n \in StmtOf(p).next : at' = Goto(p, n)
    /\ UNCHANGED <<towers, wtRetriers, db, chan, sent, retriers, robj, mgr, tasks, rpcOk>>

\* tokio::spawn in Retrier::start: a new campaign task begins with run.
LockSpawn ==
    /\ at[ManagerProc].stmt = "spawn"
    /\ \E k \in Tasks :
         /\ at[k].stmt = "unspawned"
         /\ \E n \in StmtOf(ManagerProc).next :
              at' = [Goto(ManagerProc, n) EXCEPT ![k] = Pos("run_snapshot")]
    /\ UNCHANGED <<towers, wtRetriers, db, chan, sent, retriers, robj, mgr, tasks, rpcOk,
                   owner>>

LockNext ==
    \/ LockSpawn
    \/ \E p \in LockProcs :
         LockAcquire(p) \/ LockStatementEnd(p) \/ LockSuspend(p) \/ LockResume(p)

LockSpec == Init /\ [][LockNext]_vars

\* ------------------------------------------------------------ claims
\* A campaign is live from Retrier::start until its task has made the last
\* write of its outcome handling, that is, until the closure ends.
Live(k) == tasks[k].pc \notin {"free", "panicked"}
LiveCampaigns(t) == {k \in Tasks : Live(k) /\ TowerOf(k) = t}

\* C1: at most one campaign task per tower is live at any time.
C1_OneCampaignPerTower ==
    \A t \in Towers : Cardinality(LiveCampaigns(t)) <= 1

\* The Retrier objects that exist: the manager's map or a task holds them.
Exists(r) == InUse(r, retriers, tasks)
InMap(r) == \E t \in Towers : retriers[t] = r
Registered(t) == towers[t] # Absent

\* C2: at the end of a successful campaign the tower status is Reachable when
\* the Retrier status is written to Stopped and when the tower's entry is
\* removed from ClientState.retriers.
C2_ReachableBeforeStopped ==
    [][\A k \in Tasks :
         /\ tasks[k].pc \in {"ok_w", "stop_rem"}
         /\ tasks'[k] # tasks[k]
         /\ tasks'[k].pc # "panicked"
         /\ towers'[TowerOf(k)] # Absent
         => towers'[TowerOf(k)] = Reachable]_vars

\* C3: a Pending row is removed by the engine only with the receipt or the
\* invalid row of its locator recorded, and when run() returns a transient
\* error the locators of its snapshot it has not delivered or invalidated are
\* still in the in-memory pending set.
RowsKept ==
    \A t \in Towers : \A l \in Locators :
        l \in db.pending[t] /\ l \notin db'.pending[t] /\ towers'[t] # Absent
        => l \in db'.receipts[t] \cup db'.invalid[t]

PendingKept ==
    \A k \in Tasks :
        tasks[k].pc = "backoff" /\ tasks[k].cur # 0
        => ({tasks[k].cur} \cup tasks[k].locs) \subseteq robj[tasks[k].ret].pending

C3_NoPendingWorkLost == [][RowsKept]_vars /\ []PendingKept

\* C4: every locator of a Retrier's in-memory pending set has a Pending row
\* in the store, for a tower of the registry.
C4_PendingInStore ==
    \A r \in Retriers :
        Exists(r) /\ robj[r].tower # 0 /\ Registered(robj[r].tower)
        => robj[r].pending \subseteq db.pending[robj[r].tower]

\* C5: an Idle Retrier has an empty in-memory pending set.
C5_IdleHasNoPending ==
    \A r \in Retriers : Exists(r) /\ robj[r].status = Idle => robj[r].pending = {}

\* C5 once the campaign has ended: an Idle Retrier no task holds has an empty
\* in-memory pending set.
C5_IdleAtRestHasNoPending ==
    \A r \in Retriers :
        /\ Exists(r)
        /\ robj[r].status = Idle
        /\ \A k \in Tasks : Live(k) => tasks[k].ret # r
        => robj[r].pending = {}

\* C6: once a tower is flagged Misbehaving, no step of the engine changes
\* its status.
C6_MisbehavingIsSink ==
    [][\A t \in Towers :
         towers[t] = Misbehaving => towers'[t] \in {Misbehaving, Absent}]_vars

\* C7: at most one successful add_appointment call is made per (tower, locator).
C7_AtMostOneDelivery ==
    \A t \in Towers : \A l \in Locators : rpcOk[t][l] <= 1

\* C8: a Running Retrier eventually leaves Running, and a campaign the
\* backoff driver gives up on after transient errors goes on to Idle.
TransientEndsIdle ==
    \A k \in Tasks :
        tasks[k].pc = "backoff" /\ tasks'[k].pc \notin {"backoff", "run"}
        => tasks'[k].pc = "idle_w"

C8_CampaignTerminates ==
    /\ \A r \in Retriers : (robj[r].status = Running) ~> (robj[r].status # Running)
    /\ [][TransientEndsIdle]_vars

\* C9: a Retrier is in the manager's map if and only if it is Running or
\* Idle, or Stopped with a non-empty pending set.
Wanted(o) == o.status \in {Running, Idle} \/ (o.status = Stopped /\ o.pending # {})

Steady ==
    /\ chan = <<>>
    /\ \A k \in Tasks : ~Live(k)
    /\ mgr.pc = "sleep"
    /\ \A t \in Towers :
         retriers[t] # 0 => robj[retriers[t]].status \in {Running, Idle}

\* C10: at steady state a tower that is Reachable or Misbehaving has no Running
\* or Idle Retrier, neither in the manager's map nor in ClientState.retriers.
C10_NoActiveRetrierWhenSettled ==
    Steady =>
        \A t \in Towers :
            towers[t] \in {Reachable, Misbehaving}
            => /\ retriers[t] = 0
               /\ wtRetriers[t] \notin {Running, Idle}

ReapDropsFailed ==
    /\ mgr.pc \in {"rt_rm", "rt_b", "rt_c"}
    /\ mgr' # mgr
    /\ mgr'.pc # "panicked"
    /\ robj[retriers[mgr.tower]].status = Failed
    => /\ retriers'[mgr.tower] = 0
       /\ mgr.pc = "rt_rm" => wtRetriers'[mgr.tower] = NoEntry

C12_MirrorNeverStoppedOrFailed ==
    \A t \in Towers : wtRetriers[t] \notin {Stopped, Failed}

\* The same Retrier object occupies slot r before and after the step.
SameRetrier(r) ==
    /\ Exists(r)
    /\ robj'[r].tower = robj[r].tower
    /\ robj'[r].tower # 0

\* The status changes the code makes, with the side that makes them: the
\* manager starts (Stopped -> Running) and wakes (Idle -> Stopped), a campaign
\* task ends (Running -> Stopped, Failed or Idle).
StatusStep(r) ==
    LET a == robj[r].status
        b == robj'[r].status IN
    \/ a = Stopped /\ b = Running /\ mgr.pc = "s_write" /\ mgr'.pc = "s_mirror"
    \/ a = Running /\ b \in {Stopped, Failed, Idle}
          /\ \E k \in Tasks : tasks[k].ret = r /\ tasks'[k] # tasks[k]
    \/ a = Idle /\ b = Stopped /\ mgr.pc = "wake_w" /\ mgr'.pc = "wake_m"

\* C13: the status of a Retrier changes only by Stopped -> Running (start),
\* Running -> Stopped | Failed | Idle (campaign outcome) and Idle -> Stopped
\* (wake-up); a Failed Retrier never changes status and is never started.
OnlyStatusSteps ==
    \A r \in Retriers :
        SameRetrier(r) /\ robj'[r].status # robj[r].status => StatusStep(r)

C13_StatusTransitions == [][OnlyStatusSteps]_vars

\* A Failed Retrier that still has pending appointments is in the manager's
\* map when the start pass is about to look at it.
C13_FailedAtStartPass ==
    /\ mgr.pc = "st"
    /\ \E t \in mgr.todo :
          /\ retriers[t] # 0
          /\ robj[retriers[t]].status = Failed
          /\ robj[retriers[t]].pending # {}

\* C14: no task suspends while holding a state lock: a process waiting in
\* http::register, http::add_appointment, a backoff sleep or the manager's
\* one-second sleep holds neither the WTClient lock nor a Retrier's status or
\* pending lock.
C14_NoLockAcrossAwait ==
    \A p \in LockProcs : at[p].susp => Held(p) = {}

\* A campaign task waits for the tower's answer to add_appointment while the
\* manager works under the WTClient lock and another task of the Retrier
\* sleeps in its backoff.
C14_SuspendedWhileOthersLock ==
    /\ \E k \in Tasks : at[k].susp /\ at[k].stmt = "add_appointment"
    /\ \E k \in Tasks : at[k].susp /\ at[k].stmt = "backoff"
    /\ owner["wt_client"] = {ManagerProc}

\* The manager handles a message with locators (Fresh or Stale) for a tower
\* whose Retrier is Idle when the message is received and when is_idle()
\* reads the status, and takes a step (contains_key on a WTClient mutex
\* that an earlier panic has not poisoned).
HandlesDataForIdle ==
    /\ mgr.pc \in {"m_tower", "m_isidle"}
    /\ mgr.pc = "m_tower" => ~Poisoned
    /\ ~is_none(mgr.data)
    /\ retriers[mgr.tower] # 0
    /\ robj[retriers[mgr.tower]].status = Idle
    /\ mgr' # mgr

\* C15: a message carrying locators for a tower whose Retrier is Idle is
\* ignored.  The manager's steps on it leave the Retrier (status, idle
\* timestamp, pending set), the tower status, ClientState.retriers, the store
\* and the tasks as they are, reach neither add_pending_appointments nor a
\* wake-up, and end at the next try_recv.
IgnoresDataForIdle ==
    HandlesDataForIdle =>
        /\ UNCHANGED <<towers, wtRetriers, db, retriers, robj, tasks>>
        /\ mgr'.pc = IF mgr.pc = "m_tower" /\ Registered(mgr.tower)
                     THEN "m_isidle" ELSE "recv"

C15_DataForIdleIgnored == [][IgnoresDataForIdle]_vars

\* is_idle() has read Idle for a message with locators, the tower being
\* Unreachable with locators pending in the store.
C15_IdleGetsData ==
    /\ mgr.pc = "m_isidle"
    /\ ~is_none(mgr.data)
    /\ ToLocatorSet(mgr.data) # {}
    /\ robj[retriers[mgr.tower]].status = Idle
    /\ robj[retriers[mgr.tower]].idle > 0
    /\ towers[mgr.tower] = Unreachable

\* The manual wake-up of an Idle Retrier has set it Stopped and removed its
\* entry from ClientState.retriers, and is about to reload the pending set
\* from a store that holds Pending locators for the tower.
ManualWakeReloads ==
    /\ mgr.pc = "wake_p"
    /\ mgr.back = "recv"
    /\ db.pending[mgr.tower] # {}

\* C16: after (tower_id, None) for a registered tower whose Retrier is Idle,
\* the Retrier is Stopped with the store's Pending locators as its pending
\* set, and the next reap/start pass starts it when that set is non-empty
\* (unless the tower leaves the registry in between).
C16_ManualWakeIsStarted ==
    ManualWakeReloads ~>
        \E t \in Towers :
            \/ towers[t] = Absent
            \/ retriers[t] # 0 /\ robj[retriers[t]].status = Running

\* The start pass looks at the Retrier of tower t in this step.
StartPassVisits(t) ==
    /\ mgr.pc = "st"
    /\ mgr' # mgr
    /\ t \in mgr.todo
    /\ mgr'.pc = "sleep" \/ t \notin mgr'.todo

\* The manager begins the automatic wake-up of tower t in this step.
AutoWakes(t) ==
    /\ mgr'.pc = "wake_w"
    /\ mgr'.back = "st"
    /\ mgr'.tower = t

\* C17: the start pass wakes an Idle Retrier automatically exactly when its
\* elapsed idle time in whole seconds exceeds auto_retry_delay, never while
\* it is less than or equal to it; the wake-up sets the Retrier Stopped.
AutoWakeStrictlyAfterDelay ==
    /\ \A t \in Towers :
          StartPassVisits(t) =>
              LET o == robj[retriers[t]] IN
              AutoWakes(t) <=> (o.status = Idle /\ o.idle > AutoRetryDelay)
    /\ mgr.pc = "wake_w" /\ mgr.back = "st" /\ mgr' # mgr
          => /\ robj[retriers[mgr.tower]].status = Idle
             /\ robj[retriers[mgr.tower]].idle > AutoRetryDelay
             /\ robj'[retriers[mgr.tower]].status = Stopped

C17_AutoWakeAfterDelay == [][AutoWakeStrictlyAfterDelay]_vars

\* The start pass has found a Retrier idle for one second more than
\* auto_retry_delay and is about to wake it.
C17_WokenAfterDelay ==
    /\ mgr.pc = "wake_w"
    /\ mgr.back = "st"
    /\ robj[retriers[mgr.tower]].status = Idle
    /\ robj[retriers[mgr.tower]].idle = AutoRetryDelay + 1

\* The manager handles a message, of any variant, whose tower is absent from
\* ClientState.towers.
HandlesAbsentTower ==
    /\ mgr.pc = "m_tower"
    /\ towers[mgr.tower] = Absent
    /\ mgr' # mgr

\* C18: a message whose tower is absent from ClientState.towers when the
\* manager handles it is ignored: no Retrier is created, the manager's map,
\* ClientState.towers, ClientState.retriers and the store are unchanged, and
\* the manager goes on to the next try_recv.
AbsentTowerIgnored ==
    HandlesAbsentTower =>
        /\ UNCHANGED <<towers, wtRetriers, db, retriers, robj>>
        /\ mgr'.pc = "recv"

C18_AbsentTowerIgnored == [][AbsentTowerIgnored]_vars

\* The manager handles a wake-up None message for a tower whose Retrier is
\* Running, and takes a step.
HandlesNoneForRunning ==
    /\ mgr.pc \in {"m_tower", "m_isidle", "m_add"}
    /\ is_none(mgr.data)
    /\ retriers[mgr.tower] # 0
    /\ robj[retriers[mgr.tower]].status = Running
    /\ mgr' # mgr

\* C19: a None message for a tower whose Retrier is Running is a no-op: the
\* Retrier's status and pending set, the manager's map, ClientState.retriers,
\* the tower status and the store are unchanged by handling it.
NoneForRunningIsNoOp ==
    HandlesNoneForRunning =>
        UNCHANGED <<towers, wtRetriers, db, retriers, robj, tasks>>

C19_NoneForRunningNoOp == [][NoneForRunningIsNoOp]_vars

\* Fresh(l) is in the channel for registered tower t, with l Pending in the
\* store.
FreshSent(t, l) ==
    /\ \E i \in 1..Len(chan) : chan[i].tower = t /\ chan[i].data = Fresh(l)
    /\ Registered(t)
    /\ l \in db.pending[t]

\* The tower is Reachable, has no entry in ClientState.retriers and l is not
\* among its pending appointments.
Delivered(t, l) ==
    /\ towers[t] = Reachable
    /\ wtRetriers[t] = NoEntry
    /\ l \notin db.pending[t]

\* C20: with a tower that answers every add_appointment with a valid signed
\* receipt, after Fresh(L) is sent for a registered tower with L Pending in
\* the store the system eventually reaches a state where the tower is
\* Reachable, ClientState.retriers has no entry for it and L is not pending.
C20_HappyPathDelivers ==
    \A t \in Towers : \A l \in Locators : FreshSent(t, l) ~> Delivered(t, l)

\* The campaign task ends the Idle arm of the closure (the arm of a
\* transient error the backoff gave up on) in this step.
IdleArmEnds(k) ==
    /\ tasks[k].pc = "i_tower"
    /\ tasks'[k].pc = "free"
    /\ Registered(TowerOf(k))

\* C21: when the backoff gives up with a transient error the Retrier becomes
\* Idle, its in-memory pending set is cleared, the tower status becomes
\* Unreachable, ClientState.retriers holds an Idle entry for the tower and
\* the store's Pending rows of the tower are unchanged.
IdleArmOutcome ==
    \A k \in Tasks :
        IdleArmEnds(k) =>
            /\ robj[tasks[k].ret].status = Idle
            /\ robj[tasks[k].ret].pending = {}
            /\ towers'[TowerOf(k)] = Unreachable
            /\ wtRetriers'[TowerOf(k)] = Idle
            /\ db'.pending = db.pending

C21_GiveUpLeavesIdle == [][IdleArmOutcome]_vars

\* A campaign of tower t ended with Misbehaving(proof), every task of the
\* tower has ended, and a reap pass has since removed the Retrier from the
\* manager's map.
MisbehavingReaped(t) ==
    /\ towers[t] = Misbehaving
    /\ retriers[t] = 0
    /\ LiveCampaigns(t) = {}
    /\ \A k \in Tasks : tasks[k].pc # "panicked"
    /\ mgr.pc = "sleep"

\* C22: after add_appointment returned SignatureError(proof) the campaign
\* ends, the Retrier is Failed, the tower is flagged Misbehaving, and after
\* the next reap pass the tower has no entry in ClientState.retriers.
C22_MisbehavingLeavesNoEntry ==
    \A t \in Towers : MisbehavingReaped(t) => wtRetriers[t] = NoEntry

\* The Retrier that start() is working on.
Starting == robj[retriers[mgr.tower]]

\* C23: start() on a Stopped Retrier of a registered tower first sets the
\* tower status to TemporaryUnreachable if and only if it is not
\* SubscriptionError, only then sets the Retrier Running, then inserts
\* Running in ClientState.retriers, and only then is the campaign task, the
\* one that makes the network calls, spawned.
StartInOrder ==
    /\ mgr.pc = "s_tower" /\ mgr' # mgr /\ Registered(mgr.tower) /\ ~Poisoned
          => /\ Starting.status = Stopped
             /\ towers'[mgr.tower] =
                    IF towers[mgr.tower] = SubscriptionError THEN SubscriptionError
                    ELSE TemporaryUnreachable
             /\ mgr'.pc = "s_write"
             /\ UNCHANGED <<robj, wtRetriers, tasks>>
    /\ mgr.pc = "s_write" /\ mgr' # mgr
          => /\ Starting.status = Stopped
             /\ robj'[retriers[mgr.tower]].status = Running
             /\ mgr'.pc = "s_mirror"
             /\ UNCHANGED <<towers, wtRetriers, tasks>>
    /\ mgr.pc = "s_mirror" /\ mgr' # mgr /\ ~Poisoned
          => /\ Starting.status = Running
             /\ wtRetriers'[mgr.tower] = Running
             /\ \E k \in Tasks :
                   /\ tasks[k].pc = "free"
                   /\ tasks'[k].pc = "run"
                   /\ tasks'[k].ret = retriers[mgr.tower]
    /\ \A k \in Tasks :
          tasks[k].pc = "free" /\ tasks'[k].pc # "free"
          => mgr.pc = "s_mirror" /\ tasks'[k].pc = "run"
    /\ \A k \in Tasks :
          tasks'[k].pc \in {"register", "rpc"} /\ tasks[k].pc # tasks'[k].pc
          => tasks[k].pc \in {"run", "load"}

C23_StartInOrder == [][StartInOrder]_vars

\* start() has left the SubscriptionError status of the tower as it was and
\* has set the Retrier Running; the entry and the task are still to come.
C23_StartKeepsSubscriptionError ==
    /\ mgr.pc = "s_mirror"
    /\ towers[mgr.tower] = SubscriptionError
    /\ Starting.status = Running
    /\ wtRetriers[mgr.tower] = NoEntry
    /\ \A k \in Tasks : tasks[k].pc = "free"

\* C24: whenever a Retrier is Running and its tower is in the registry, the
\* tower is TemporaryUnreachable or SubscriptionError.
C24_RunningTowerStatus ==
    \A r \in Retriers :
        Exists(r) /\ robj[r].status = Running /\ Registered(robj[r].tower)
        => towers[robj[r].tower] \in {TemporaryUnreachable, SubscriptionError}

\* C25: whenever a Retrier is Failed and its tower is in the registry, the
\* tower is neither Reachable nor TemporaryUnreachable.
C25_FailedTowerStatus ==
    \A r \in Retriers :
        Exists(r) /\ robj[r].status = Failed /\ Registered(robj[r].tower)
        => towers[robj[r].tower] \notin {Reachable, TemporaryUnreachable}

\* C26: whenever a Retrier is Idle and its tower is in the registry, the tower
\* is Unreachable.
C26_IdleTowerStatus ==
    \A r \in Retriers :
        Exists(r) /\ robj[r].status = Idle /\ Registered(robj[r].tower)
        => towers[robj[r].tower] = Unreachable

\* The cleanup steps of the Idle arm after set_status(Idle): the clear of the
\* pending set and the write of the tower status.
IdleCleanupStep(k) ==
    /\ tasks[k].pc \in {"i_clear", "i_tower"}
    /\ tasks'[k].pc # tasks[k].pc
    /\ tasks'[k].pc # "panicked"

\* C27: the exhausted campaign clears the pending set and sets the tower
\* Unreachable only while its Retrier is still Idle, never after a wake-up
\* has set the Retrier Stopped and reloaded the pending set.
CleanupOnlyWhileIdle ==
    \A k \in Tasks : IdleCleanupStep(k) => robj[tasks[k].ret].status = Idle

C27_NoCleanupAfterWake == [][CleanupOnlyWhileIdle]_vars

\* C28: start() is only entered for a Retrier whose tower is in the registry,
\* so that get_tower_status(tower_id).unwrap() finds a status.
C28_StartOnlyForRegistered ==
    mgr.pc = "s_tower" => Registered(mgr.tower)

\* The task panics in dbm.load_appointment(locator).unwrap(): the store has
\* no appointment for the locator taken from the snapshot.
LoadFails(k) ==
    /\ tasks[k].pc = "load"
    /\ ~Poisoned
    /\ tasks'[k].pc = "panicked"

\* C29: every locator that run() takes from its snapshot of the pending set
\* has an appointment in the store when it is loaded, so the load never
\* fails and the campaign task does not panic there.
C29_LoadNeverFails == [][\A k \in Tasks : ~LoadFails(k)]_vars

\* C30: every entry of ClientState.retriers belongs to a Retrier that the
\* manager's map holds for the tower and whose status is Running, Idle or
\* Failed.
C30_EntryHasLiveRetrier ==
    \A t \in Towers :
        wtRetriers[t] # NoEntry
        => /\ retriers[t] # 0
           /\ robj[retriers[t]].status \in {Running, Idle, Failed}

\* The campaign for tower t has ended with the tower Reachable, nothing
\* pending in memory or in the store and no entry in ClientState.retriers.
Renewed(t) ==
    /\ towers[t] = Reachable
    /\ db.pending[t] = {}
    /\ wtRetriers[t] = NoEntry
    /\ \A r \in Retriers : Exists(r) /\ robj[r].tower = t => robj[r].pending = {}

\* C31: for a tower flagged SubscriptionError whose register endpoint
\* returns a valid improved receipt and which then accepts every
\* appointment, a Fresh(L) sent with L Pending in the store leads to a state
\* with the tower Reachable, nothing pending and no entry for the tower in
\* ClientState.retriers.
C31_RenewalDelivers ==
    \A t \in Towers : \A l \in Locators : FreshSent(t, l) ~> Renewed(t)

\* The outcome of a step of run() or of the closure: the task's next
\* position and the error run() returned.
Outcome(k, pc, e) == tasks'[k].pc = pc /\ tasks'[k].err = e

\* C32: re-registering a tower in SubscriptionError, a failed register call
\* is the transient Subscription(_, false) and a receipt with a bad signature
\* the permanent Subscription(_, true); a receipt that add_update_tower
\* rejects is the permanent one too.  After a permanent one no
\* add_appointment is sent, and the closure ends with the Retrier Failed and
\* a registered tower flagged SubscriptionError.  The steps that lock the
\* WTClient mutex are those taken with the mutex not poisoned.
RenewalErrors ==
    \A k \in Tasks :
        /\ tasks[k].pc = "register" /\ tasks'[k] # tasks[k]
              => /\ \/ tasks'[k].pc = "add_update"
                    \/ Outcome(k, "backoff", Err(ErrSubscription, FALSE))
                    \/ Outcome(k, "fail_w", Err(ErrSubscription, TRUE))
                 /\ UNCHANGED <<towers, db, rpcOk, robj>>
        /\ tasks[k].pc = "add_update" /\ tasks'[k] # tasks[k] /\ ~Poisoned
              => /\ \/ tasks'[k].pc = "loop"
                    \/ Outcome(k, "fail_w", Err(ErrSubscription, TRUE))
                 /\ UNCHANGED <<towers, db, rpcOk, robj>>
        /\ tasks[k].pc = "fail_w" /\ tasks'[k] # tasks[k]
           /\ tasks[k].err.kind = ErrSubscription
              => /\ robj'[tasks[k].ret].status = Failed
                 /\ tasks'[k].pc = "f_tower"
                 /\ UNCHANGED <<towers, db, rpcOk>>
        /\ tasks[k].pc = "f_tower" /\ tasks'[k] # tasks[k] /\ ~Poisoned
           /\ tasks[k].err.kind = ErrSubscription
              => /\ tasks'[k].pc = "free"
                 /\ robj[tasks[k].ret].status = Failed
                 /\ Registered(TowerOf(k)) => towers'[TowerOf(k)] = SubscriptionError
                 /\ UNCHANGED <<db, rpcOk>>

C32_RenewalErrors == [][RenewalErrors]_vars

\* The closure has ended after a permanent Subscription error: the Retrier
\* is Failed, not reaped yet, and the tower is flagged SubscriptionError.
C32_FailedAfterRenewal ==
    \E r \in Retriers :
        /\ InMap(r) /\ robj[r].status = Failed
        /\ towers[robj[r].tower] = SubscriptionError
        /\ \A k \in Tasks : tasks[k].pc = "free"
        /\ \A t \in Towers : \A l \in Locators : rpcOk[t][l] = 0

\* C33: an ApiError other than the subscription one removes the locator
\* from the in-memory pending set and, for a registered tower, moves it from
\* pending to invalid in the store; run() goes on with the rest of its
\* snapshot, returns Ok only with an empty pending set, and the closure then
\* sets the tower Reachable.  An invalid locator comes back to the store's
\* pending set only when a producer stores it again.
RejectionMoves ==
    /\ \A k \in Tasks :
        LET r == tasks[k].ret
            t == TowerOf(k)
            l == tasks[k].cur IN
        /\ tasks[k].pc = "rpc" /\ tasks'[k].pc = "store_inv"
              => /\ robj'[r].pending = robj[r].pending \ {l}
                 /\ tasks'[k].cur = l /\ tasks'[k].locs = tasks[k].locs
                 /\ UNCHANGED <<towers, db, wtRetriers>>
        /\ tasks[k].pc = "store_inv" /\ tasks'[k] # tasks[k] /\ ~Poisoned
              => /\ Registered(t) => /\ l \in db'.invalid[t]
                                     /\ l \notin db'.pending[t]
                                     /\ db'.receipts = db.receipts
                 /\ tasks'[k].pc = NextLocator(tasks[k].locs)
                 /\ UNCHANGED <<towers, robj, wtRetriers>>
        /\ tasks[k].pc = "loop" /\ tasks'[k].pc = "ok_tower"
              => robj[r].pending = {}
        /\ tasks[k].pc = "ok_tower" /\ tasks'[k] # tasks[k] /\ ~Poisoned
           /\ Registered(t)
              => towers'[t] = Reachable
    /\ \A t \in Towers : \A l \in Locators :
          l \in db.invalid[t] \ db.pending[t] /\ l \in db'.pending[t]
          => sent' = sent + 1

ReturnsUnreachable(k) ==
    /\ tasks[k].pc # "backoff"
    /\ tasks'[k].pc = "backoff"
    /\ tasks'[k].err.kind = ErrUnreachable

\* C34: run() returns Unreachable only from an add_appointment call, as a
\* transient error and at once: the rest of the snapshot is not submitted
\* and the in-memory pending set, the store, the tower status and the count
\* of accepted appointments are unchanged.
UnreachableReturnsAtOnce ==
    \A k \in Tasks :
        ReturnsUnreachable(k)
        => /\ tasks[k].pc = "rpc"
           /\ tasks'[k].err = Err(ErrUnreachable, FALSE)
           /\ tasks'[k].locs = tasks[k].locs
           /\ UNCHANGED <<robj, db, towers, wtRetriers, rpcOk>>

C34_UnreachableReturnsAtOnce == [][UnreachableReturnsAtOnce]_vars

\* run() has returned Unreachable on the first locator of a snapshot of two:
\* the other one was not submitted and both are still pending, in memory
\* and in the store.
C34_ReturnedWithSnapshotLeft ==
    /\ tasks[RunTask].pc = "backoff"
    /\ tasks[RunTask].err = Err(ErrUnreachable, FALSE)
    /\ tasks[RunTask].locs # {}
    /\ robj[RunRetrier].pending = RunLocators
    /\ db.pending[1] = RunLocators
    /\ \A l \in RunLocators : rpcOk[1][l] = 0

\* C35: a run() whose snapshot finds the tower missing from the registry
\* returns the permanent Abandoned in that step, with no network call and
\* with the pending set and the store untouched; the closure then sets the
\* Retrier Failed and ends without writing any tower status.  A run() that
\* finds the WTClient mutex poisoned takes no snapshot, and a Retrier the
\* manager's map no longer holds is dropped when its task ends.
AbandonedEndsFailed ==
    \A k \in Tasks :
        LET r == tasks[k].ret IN
        /\ tasks[k].pc = "run" /\ tasks'[k] # tasks[k] /\ ~Poisoned
           /\ towers[TowerOf(k)] = Absent
              => /\ Outcome(k, "fail_w", Err(ErrAbandoned, TRUE))
                 /\ UNCHANGED <<robj, db, towers, wtRetriers, rpcOk>>
        /\ tasks[k].pc = "fail_w" /\ tasks'[k] # tasks[k]
           /\ tasks[k].err.kind = ErrAbandoned
              => /\ tasks'[k].pc = "free"
                 /\ InMap(r) => /\ robj'[r].status = Failed
                                /\ robj'[r].pending = robj[r].pending
                 /\ UNCHANGED <<db, towers, wtRetriers, rpcOk>>

C35_AbandonedEndsFailed == [][AbandonedEndsFailed]_vars

\* The campaign of an abandoned tower has ended: the Retrier is Failed with
\* its pending set as it was, and the tower has no status.
C35_FailedForAbandoned ==
    \E r \in Retriers :
        /\ InMap(r) /\ robj[r].status = Failed /\ robj[r].pending # {}
        /\ towers[robj[r].tower] = Absent
        /\ \A k \in Tasks : tasks[k].pc = "free"
        /\ mgr.pc # "panicked"


\* C36: once a campaign has ended Idle on an unreachable tower and the tower
\* answers from some point on, the Retrier is woken without a further message
\* and the engine reaches tower status Reachable, no pending row and no entry
\* for the tower in ClientState.retriers.
EndedIdle(t) ==
    /\ retriers[t] # 0
    /\ robj[retriers[t]].status = Idle
    /\ \A k \in Tasks : tasks[k].pc = "free"
    /\ towers[t] = Unreachable
    /\ wtRetriers[t] = Idle
    /\ chan = <<>>

Recovered(t) == towers[t] = Reachable /\ db.pending[t] = {} /\ wtRetriers[t] = NoEntry

TowerAnswersAtLast == <>[][\A k \in Tasks : ~AnswersUnreachable(k)]_vars

C36_AutoRecovery ==
    TowerAnswersAtLast => \A t \in Towers : EndedIdle(t) ~> Recovered(t)

\* C37: a locator that enters the pending set of a Running Retrier after
\* run() has seen the set empty for the last time and before the status turns
\* Stopped is eventually submitted to the tower.
AddedLate(t, l) ==
    /\ retriers[t] # 0
    /\ robj[retriers[t]].status = Running
    /\ l \in robj[retriers[t]].pending
    /\ l \in db.pending[t]
    /\ \E k \in Tasks : /\ tasks[k].pc \in {"ok_tower", "ok_w"}
                        /\ tasks[k].ret = retriers[t]

Submitted(t, l) ==
    \E k \in Tasks : tasks[k].pc = "rpc" /\ tasks[k].cur = l /\ TowerOf(k) = t

C37_LateLocatorSubmitted ==
    \A t \in Towers : \A l \in Locators : AddedLate(t, l) ~> Submitted(t, l)

\* C38: once every sender is dropped the manager receives every message
\* still queued and then leaves its loop; it does not end while a sender is
\* alive.
ManagerEnded == mgr.pc \in {"done", "panicked"}

Drained == mgr.pc = "done" /\ chan = <<Hangup>>

C38_DrainsThenTerminates ==
    /\ SendersDropped ~> Drained
    /\ [](ManagerEnded => SendersDropped)

\* C39: an add_appointment that fails with a request error other than a
\* connection error changes nothing and does not end the attempt: run() goes
\* on with the rest of its snapshot, and the next pass of the while loop takes
\* the whole pending set, the failed locator included, in the same attempt.
RequestErrorStep(k) == tasks[k].pc = "rpc" /\ tasks'[k].pc \in {"load", "loop"}

NextPass(k) == tasks[k].pc = "loop" /\ tasks'[k].pc = "load"

RequestErrorGoesOn ==
    \A k \in Tasks :
        /\ RequestErrorStep(k) =>
              /\ UNCHANGED <<towers, wtRetriers, db, robj, retriers, rpcOk, chan>>
              /\ tasks'[k].pc = IF tasks[k].locs = {} THEN "loop" ELSE "load"
              /\ tasks'[k].locs = tasks[k].locs
              /\ tasks'[k].att = tasks[k].att
              /\ tasks'[k].err = tasks[k].err
        /\ NextPass(k) =>
              /\ tasks'[k].locs = robj[tasks[k].ret].pending
              /\ tasks'[k].att = tasks[k].att

C39_RequestErrorGoesOn == [][RequestErrorGoesOn]_vars

\* run() is in its for loop, past a locator that is still pending in memory
\* and in the store.
C39_FailedStillPending ==
    \E l \in RunLocators :
        /\ tasks[RunTask].pc = "load"
        /\ tasks[RunTask].locs # {}
        /\ l \in robj[RunRetrier].pending \ tasks[RunTask].locs
        /\ l \in db.pending[TowerOf(RunTask)]
        /\ towers[TowerOf(RunTask)] = Reachable

\* C40: the locks are never taken in a cyclic order: a process takes a lock
\* while it holds another one only in the manager's wake-ups, the pending lock
\* first and the WTClient lock second, and every chain of processes waiting
\* for each other's locks ends in a process that waits for no lock.
Acquiring(p) == Walking(p) /\ at[p].got < Len(StmtOf(p).locks)

NextLock(p) == StmtOf(p).locks[at[p].got + 1]

Blocked(p) == Acquiring(p) /\ owner[NextLock(p)] # {}

NestedOnlyInWakeUp ==
    \A p \in LockProcs :
        Acquiring(p) /\ Held(p) # {}
        => /\ p = ManagerProc
           /\ at[p].stmt \in {"recv_load", "start_load"}
           /\ Held(p) = {"pending"}
           /\ NextLock(p) = "wt_client"

\* The processes that get their lock once those of S have moved on.
Served(S) == S \cup {p \in LockProcs : Blocked(p) /\ owner[NextLock(p)] \subseteq S}

RECURSIVE ServedAfter(_, _)
ServedAfter(S, n) == IF n = 0 THEN S ELSE ServedAfter(Served(S), n - 1)

NoWaitCycle ==
    ServedAfter({p \in LockProcs : ~Blocked(p)}, Cardinality(LockProcs)) = LockProcs

C40_NoLockCycle == NestedOnlyInWakeUp /\ NoWaitCycle

\* The manager holds the pending lock in a wake-up and waits for the WTClient
\* lock, which a campaign task holds.
C40_ManagerWaitsNested ==
    /\ Blocked(ManagerProc)
    /\ Held(ManagerProc) = {"pending"}
    /\ \E k \in Tasks : owner["wt_client"] = {k}
=============================================================================
